---- MODULE Spec2Model ----
(***************************************************************************)
(* A model of the chaosTrace core: the policy engine, the event store,     *)
(* the chaos scheduler, the run orchestrator, the proxy connection and the *)
(* statement analysis (SQL interceptor and risk scorer).                   *)
(* Each component has its own variables, initial condition and next-state  *)
(* relation; a specification exercises one component and leaves the others *)
(* in their idle state.                                                    *)
(***************************************************************************)
EXTENDS Integers, Sequences, FiniteSets, TLC

VARIABLES
    \* ---- policy engine (control_plane/services/policy_engine.py)
    policy,        \* PolicyEngine.policy: the loaded PolicyDefinition
    pe_in,         \* arguments of the last evaluate() call
    pe_out,        \* PolicyEvaluationResult returned by the last evaluate() call
    \* ---- event store (control_plane/services/event_store.py)
    st_max,        \* EventStore._max_events
    st_rows,       \* the rows of table events
    st_stats,      \* the rows of table run_stats, by run_id
    st_seq,        \* the AUTOINCREMENT counter of events.id
    st_last,       \* the last call made on the store and what it observed
    st_subscribers, \* EventStore._subscribers
    st_writers,    \* the threads inside add_event, each on its own connection
    \* ---- run orchestrator (control_plane/services/orchestrator.py)
    or_cfg,        \* settings.docker_cleanup_on_exit and request.timeout_seconds
    or_run,        \* the RunState of the run in RunOrchestrator._runs
    or_task,       \* the asyncio task of _execute_run in _run_tasks
    or_docker,     \* the Docker network and containers of the run
    or_now,        \* the wall clock, in seconds
    or_ret,        \* what the last terminate_run call returned
    \* ---- chaos scheduler (control_plane/services/chaos_scheduler.py)
    sc_scenario,   \* ChaosScheduler.scenario.triggers
    sc_limit,      \* ChaosScheduler.scenario.max_total_chaos_events
    sc_hooks,      \* ChaosScheduler.chaos_hooks: its pool, lock tasks, latency removers
    sc_running,    \* ChaosScheduler._running
    sc_state,      \* ChaosScheduler._state (a ChaosState, or none yet)
    sc_timer,      \* the task of _time_check_loop
    sc_callers,    \* the coroutines that are inside on_event
    sc_turn,       \* the coroutine that is executing, "none" when all are suspended
    sc_now,        \* the wall clock, in seconds
    sc_ghost,      \* history: fires of each trigger since start(), on_event calls
    \* ---- proxy connection (db_proxy/proxy_server.py)
    px_cfg,        \* DBProxyConnection.policy_evaluator / event_callback are set
    px_env,        \* the two peers: bytes in flight to the proxy, EOF, reset
    px_conn,       \* handle(): its position, _closed, the two writers, _sql_count
    px_c2s,        \* the task of _proxy_client_to_server
    px_s2c,        \* the task of _proxy_server_to_client
    px_log,        \* history: decisions, events emitted, writes on both sockets
    \* ---- statement analysis (db_proxy/sql_interceptor.py, risk_scorer.py)
    an_cfg,        \* RiskScorer.sensitive_tables and RiskScorer.row_thresholds
    an_in,         \* the statement handed to parse() and what sqlglot makes of it
    an_out,        \* the ParsedSQL and the RiskAssessment computed for it
    \* ---- file system interceptor (fs_proxy/interceptor.py)
    fs_cfg,        \* FSInterceptor.policy_evaluator: is it set, what it denies
    fs_state,      \* the files that exist, _operation_count, _blocked_count
    fs_last        \* the last call on the interceptor and how it ended

policyVars == <<policy, pe_in, pe_out>>
storeVars  == <<st_max, st_rows, st_stats, st_seq, st_last, st_subscribers, st_writers>>

runVars    == <<or_cfg, or_run, or_task, or_docker, or_now, or_ret>>

schedVars  == <<sc_scenario, sc_limit, sc_hooks, sc_running, sc_state, sc_timer,
                sc_callers, sc_turn, sc_now, sc_ghost>>

proxyVars  == <<px_cfg, px_env, px_conn, px_c2s, px_s2c, px_log>>

analysisVars == <<an_cfg, an_in, an_out>>

fsVars == <<fs_cfg, fs_state, fs_last>>

vars == <<policyVars, storeVars, runVars, schedVars, proxyVars, analysisVars, fsVars>>

\* an operation of one component leaves the other components' state alone
Frame(own) ==
    /\ IF own = "policy" THEN TRUE ELSE UNCHANGED policyVars
    /\ IF own = "store" THEN TRUE ELSE UNCHANGED storeVars
    /\ IF own = "run" THEN TRUE ELSE UNCHANGED runVars
    /\ IF own = "sched" THEN TRUE ELSE UNCHANGED schedVars
    /\ IF own = "proxy" THEN TRUE ELSE UNCHANGED proxyVars
    /\ IF own = "analysis" THEN TRUE ELSE UNCHANGED analysisVars
    /\ IF own = "fs" THEN TRUE ELSE UNCHANGED fsVars

\* ------------------------------------------------------------------------
\* Bounds of the model
\* ------------------------------------------------------------------------
MaxRules == 2          \* longest forbidden_sql list explored
MaxRows  == 2          \* largest estimated_rows value explored
MaxAdds  == 12         \* events stored by a store of capacity 10
MaxSmallAdds == 2      \* events stored by a store of capacity 1
MaxClock == 4          \* seconds of wall clock explored
MaxTimeout == 2        \* largest request.timeout_seconds explored
PgProbes == 2          \* readiness probes made by _wait_for_postgres
MaxK == 2              \* largest max_triggers explored
MaxEvents == 3         \* on_event calls made on one scheduler
MaxSchedClock == 2     \* seconds of wall clock the scheduler is followed
MaxMessages == 2       \* protocol messages a client sends on one connection
MaxServerChunks == 1   \* reads of server data relayed on one connection
MaxNodes == 3          \* most joins or subqueries in a parsed statement
MaxViolations == 2     \* violations recorded on a RunState
MaxBlocked == 2        \* blocked_events recorded on a RunState
MaxFsOps == 3          \* calls made on one FSInterceptor
MaxHookCalls == 3      \* execute calls made on one ChaosHooks

\* ------------------------------------------------------------------------
\* Small helpers
\* ------------------------------------------------------------------------
SeqsUpTo(S, n) == UNION { [1..k -> S] : k \in 0..n }

InSeq(x, s) == \E i \in 1..Len(s) : s[i] = x

\* Python's None for an optional integer (estimated_rows, max_rows)
None == 0 - 1

\* str.upper() / str.lower() on the identifiers the model uses
Upper(s) ==
    CASE s = "delete" -> "DELETE"
      [] s = "select" -> "SELECT"
      [] s = "update" -> "UPDATE"
      [] s = "users"  -> "USERS"
      [] s = "sql"    -> "SQL"
      [] s = "received" -> "RECEIVED"
      [] s = "blocked" -> "BLOCKED"
      [] s = "orders" -> "ORDERS"
      [] OTHER        -> s

Lower(s) ==
    CASE s = "DELETE" -> "delete"
      [] s = "SELECT" -> "select"
      [] s = "UPDATE" -> "update"
      [] s = "USERS"  -> "users"
      [] s = "SQL"    -> "sql"
      [] s = "RECEIVED" -> "received"
      [] s = "BLOCKED" -> "blocked"
      [] s = "ORDERS" -> "orders"
      [] OTHER        -> s

\* ========================================================================
\* POLICY ENGINE
\* ========================================================================

\* PolicySeverity: the enum's members are the strings themselves
PolicySeverity == {"info", "warning", "error", "critical"}

\* severity_order of _check_forbidden_patterns
severity_order(s) ==
    CASE s = "info"     -> 0
      [] s = "warning"  -> 1
      [] s = "error"    -> 2
      [] s = "critical" -> 3

\* Python's >= on two str values, for the four severity strings:
\* "critical" < "error" < "info" < "warning" (lexicographic order)
StrRank(s) ==
    CASE s = "critical" -> 0
      [] s = "error"    -> 1
      [] s = "info"     -> 2
      [] s = "warning"  -> 3

StrGE(a, b) == StrRank(a) >= StrRank(b)

\* PolicyEvaluationResult(allowed=True): the defaults of the model class
NewResult ==
    [allowed |-> TRUE, flagged |-> FALSE, severity |-> "info",
     matched_rules |-> <<>>, violation_reasons |-> <<>>, warnings |-> <<>>]

\* A statement text is a sequence of word tokens; pattern.search(sql) finds
\* the pattern's token anywhere in it, and len(sql) is its length.
PatternSearch(pattern, sql) == InSeq(pattern, sql)

\* a length guard that also rejects a statement of exactly the maximum length
LengthGuardTrips_AtLeast(sql, pol) == Len(sql) >= pol.max_query_length

\* evaluate, lines 140-147: the length guard
LengthGuardTrips(sql, pol) == Len(sql) > pol.max_query_length

LengthGuardResult(sql, pol) ==
    [NewResult EXCEPT !.allowed = FALSE, !.severity = "error",
                      !.violation_reasons = <<<<"too_long", "", "">>>>]

\* _check_forbidden_patterns: one compiled pattern applied to the result
ApplyForbiddenRule(rule, sql, r) ==
    IF ~PatternSearch(rule.pattern, sql) THEN r
    ELSE LET r1 == [r EXCEPT !.matched_rules =
                        Append(@, <<"forbidden_pattern", rule.pattern, "">>)]
             r2 == IF severity_order(rule.severity) >= severity_order(r1.severity)
                   THEN [r1 EXCEPT !.severity = rule.severity] ELSE r1
             msg == <<"forbidden", rule.pattern, "">>
         IN IF rule.severity \in {"error", "critical"}
            THEN [r2 EXCEPT !.violation_reasons = Append(@, msg)]
            ELSE [r2 EXCEPT !.warnings = Append(@, msg)]

RECURSIVE ForbiddenFrom(_, _, _, _)
ForbiddenFrom(i, rules, sql, r) ==
    IF i > Len(rules) THEN r
    ELSE ForbiddenFrom(i + 1, rules, sql, ApplyForbiddenRule(rules[i], sql, r))

CheckForbiddenPatterns(sql, pol, r) == ForbiddenFrom(1, pol.forbidden_sql, sql, r)

\* _check_honeypots: the loop over tables, then the loop over columns
RECURSIVE HoneypotTablesFrom(_, _, _, _)
HoneypotTablesFrom(i, tables, hp, r) ==
    IF i > Len(tables) THEN r
    ELSE HoneypotTablesFrom(i + 1, tables, hp,
            IF tables[i] \in hp.tables
            THEN [r EXCEPT !.severity = hp.severity,
                           !.violation_reasons =
                               Append(@, <<"honeypot_table_access", tables[i], "">>),
                           !.matched_rules =
                               Append(@, <<"honeypot_table", tables[i], "">>)]
            ELSE r)

RECURSIVE HoneypotColumnsFrom(_, _, _, _)
HoneypotColumnsFrom(i, columns, hp, r) ==
    IF i > Len(columns) THEN r
    ELSE HoneypotColumnsFrom(i + 1, columns, hp,
            IF columns[i] \in hp.columns
            THEN [r EXCEPT !.severity = hp.severity,
                           !.violation_reasons =
                               Append(@, <<"honeypot_column_access", columns[i], "">>),
                           !.matched_rules =
                               Append(@, <<"honeypot_column", columns[i], "">>)]
            ELSE r)

CheckHoneypots(tables, columns, pol, r) ==
    HoneypotColumnsFrom(1, columns, pol.honeypots,
        HoneypotTablesFrom(1, tables, pol.honeypots, r))

\* _table_matches: "*" matches all, otherwise a case-insensitive comparison
\* (patterns with an inner "*" are not part of the explored policies)
TableMatches(table, pattern) ==
    IF pattern = "*" THEN TRUE ELSE Lower(table) = Lower(pattern)

\* _check_table_restrictions, body of the loop for one restriction
RECURSIVE ForbiddenColumnsFrom(_, _, _, _)
ForbiddenColumnsFrom(i, columns, res, r) ==
    IF i > Len(columns) THEN r
    ELSE ForbiddenColumnsFrom(i + 1, columns, res,
            IF columns[i] \in res.forbidden_columns
            THEN [r EXCEPT !.severity = "error",
                           !.violation_reasons =
                               Append(@, <<"forbidden_column", columns[i], "">>),
                           !.matched_rules =
                               Append(@, <<"forbidden_column", columns[i], "">>)]
            ELSE r)

RECURSIVE AllowedColumnsFrom(_, _, _, _)
AllowedColumnsFrom(i, columns, res, r) ==
    IF i > Len(columns) THEN r
    ELSE AllowedColumnsFrom(i + 1, columns, res,
            IF columns[i] \notin res.allowed_columns
            THEN [r EXCEPT !.severity = "error",
                           !.violation_reasons =
                               Append(@, <<"not_allowed_column", columns[i], "">>),
                           !.matched_rules =
                               Append(@, <<"not_allowed_column", columns[i], "">>)]
            ELSE r)

ApplyRestriction(res, table, sql_type, has_where, estimated_rows, columns, r) ==
    LET operation == Upper(sql_type) IN
    IF ~TableMatches(table, res.table) THEN r
    ELSE IF operation \notin { Upper(op) : op \in res.operations } THEN r
    ELSE
      LET r1 == IF res.require_where /\ ~has_where /\ sql_type \in {"delete", "update"}
                THEN [r EXCEPT !.severity = "error",
                               !.violation_reasons =
                                   Append(@, <<"requires_where", operation, table>>),
                               !.matched_rules =
                                   Append(@, <<"require_where", table, operation>>)]
                ELSE r
          r2 == IF res.max_rows # None /\ estimated_rows # None
                   /\ estimated_rows > res.max_rows
                THEN [r1 EXCEPT !.severity = "error",
                                !.violation_reasons =
                                    Append(@, <<"too_many_rows", operation, table>>),
                                !.matched_rules =
                                    Append(@, <<"row_limit", table, "">>)]
                ELSE r1
          r3 == ForbiddenColumnsFrom(1, columns, res, r2)
      IN IF res.has_allowed_columns
         THEN AllowedColumnsFrom(1, columns, res, r3)
         ELSE r3

RECURSIVE RestrictionsFrom(_, _, _, _, _, _, _, _)
RestrictionsFrom(i, rs, table, sql_type, has_where, estimated_rows, columns, r) ==
    IF i > Len(rs) THEN r
    ELSE RestrictionsFrom(i + 1, rs, table, sql_type, has_where, estimated_rows, columns,
            ApplyRestriction(rs[i], table, sql_type, has_where, estimated_rows, columns, r))

CheckTableRestrictions(table, sql_type, has_where, estimated_rows, columns, pol, r) ==
    RestrictionsFrom(1, pol.table_restrictions, table, sql_type, has_where,
                     estimated_rows, columns, r)

\* evaluate, lines 156-164: the loop over the referenced tables
RECURSIVE TablesFrom(_, _, _, _)
TablesFrom(i, in, pol, r) ==
    IF i > Len(in.tables) THEN r
    ELSE TablesFrom(i + 1, in, pol,
            CheckTableRestrictions(in.tables[i], in.sql_type, in.has_where,
                                   in.estimated_rows, in.columns, pol, r))

\* _check_row_limits: one limit applied to the result. The severity update
\* compares the enum members' str values with >=.
ApplyRowLimit(limit, sql_type, estimated_rows, r) ==
    IF Upper(limit.operation) # Upper(sql_type) THEN r
    ELSE IF ~(estimated_rows > limit.max_rows) THEN r
    ELSE LET r1  == IF StrGE(limit.action, r.severity)
                    THEN [r EXCEPT !.severity = limit.action] ELSE r
             msg == <<"global_too_many_rows", Upper(sql_type), "">>
             r2  == IF limit.action \in {"error", "critical"}
                    THEN [r1 EXCEPT !.violation_reasons = Append(@, msg)]
                    ELSE [r1 EXCEPT !.warnings = Append(@, msg)]
         IN [r2 EXCEPT !.matched_rules = Append(@, <<"global_row_limit", sql_type, "">>)]

RECURSIVE RowLimitsFrom(_, _, _, _, _)
RowLimitsFrom(i, limits, sql_type, estimated_rows, r) ==
    IF i > Len(limits) THEN r
    ELSE RowLimitsFrom(i + 1, limits, sql_type, estimated_rows,
            ApplyRowLimit(limits[i], sql_type, estimated_rows, r))

CheckRowLimits(sql_type, estimated_rows, pol, r) ==
    IF estimated_rows = None THEN r
    ELSE RowLimitsFrom(1, pol.row_limits, sql_type, estimated_rows, r)

\* a final decision that forgets the CRITICAL severity
FinalDecision_ErrorOnly(r) ==
    IF r.severity = "error" THEN [r EXCEPT !.allowed = FALSE]
    ELSE IF r.severity = "warning" THEN [r EXCEPT !.flagged = TRUE]
    ELSE r

\* evaluate, lines 169-173: the final allowed / flagged decision
FinalDecision(r) ==
    IF r.severity \in {"error", "critical"} THEN [r EXCEPT !.allowed = FALSE]
    ELSE IF r.severity = "warning" THEN [r EXCEPT !.flagged = TRUE]
    ELSE r

\* PolicyEngine.evaluate
Evaluate(in, pol) ==
    IF LengthGuardTrips(in.sql, pol) THEN LengthGuardResult(in.sql, pol)
    ELSE FinalDecision(
            CheckRowLimits(in.sql_type, in.estimated_rows, pol,
                TablesFrom(1, in, pol,
                    CheckHoneypots(in.tables, in.columns, pol,
                        CheckForbiddenPatterns(in.sql, pol, NewResult)))))

\* PolicyEngine.get_policy_action
GetPolicyAction(r) ==
    IF ~r.allowed THEN "block"
    ELSE IF r.flagged THEN "allow_flagged"
    ELSE "allow"

\* ---- the policies and statements explored ------------------------------
PatternRules == [pattern : {"DELETE"}, severity : PolicySeverity]

HoneypotConfigs ==
    { [tables |-> {}, columns |-> {}, severity |-> "critical"] } \cup
    [tables : {{"_secrets"}}, columns : {{}}, severity : PolicySeverity]

TableRestrictions ==
    { <<>>,
      << [table |-> "users", operations |-> {"DELETE", "UPDATE"},
          require_where |-> TRUE, max_rows |-> None,
          has_allowed_columns |-> FALSE, allowed_columns |-> {},
          forbidden_columns |-> {}] >>,
      << [table |-> "*", operations |-> {"delete"},
          require_where |-> FALSE, max_rows |-> 1,
          has_allowed_columns |-> FALSE, allowed_columns |-> {},
          forbidden_columns |-> {"ssn"}] >> }

RowLimits ==
    { <<>> } \cup
    { << [operation |-> "DELETE", max_rows |-> 1, action |-> a] >> : a \in PolicySeverity }

Policies ==
    [forbidden_sql      : SeqsUpTo(PatternRules, MaxRules),
     honeypots          : HoneypotConfigs,
     table_restrictions : TableRestrictions,
     row_limits         : RowLimits,
     max_query_length   : {2}]

Statements ==
    [sql            : {<<"SELECT">>, <<"DELETE", "FROM">>, <<"DELETE", "FROM", "users">>},
     sql_type       : {"select", "delete"},
     tables         : {<<>>, <<"users">>, <<"USERS", "_secrets">>},
     has_where      : BOOLEAN,
     estimated_rows : {None} \cup {0, MaxRows},
     columns        : {<<>>, <<"ssn">>}]

NoStatement ==
    [sql |-> <<>>, sql_type |-> "select", tables |-> <<>>, has_where |-> FALSE,
     estimated_rows |-> None, columns |-> <<>>]

EmptyPolicy ==
    [forbidden_sql |-> <<>>,
     honeypots |-> [tables |-> {}, columns |-> {}, severity |-> "critical"],
     table_restrictions |-> <<>>, row_limits |-> <<>>, max_query_length |-> 2]

\* PolicyEngine.__init__ with any explored policy, and the arguments the
\* caller is about to pass to evaluate()
PolicyInit ==
    /\ policy \in Policies
    /\ pe_in \in [called : {FALSE}, args : Statements]
    /\ pe_out = NewResult

EvaluateCall ==
    /\ ~pe_in.called
    /\ pe_in' = [pe_in EXCEPT !.called = TRUE]
    /\ pe_out' = Evaluate(pe_in.args, policy)
    /\ UNCHANGED policy
    /\ Frame("policy")

PolicyNext == EvaluateCall

\* ---- claims about the policy engine -----------------------------------

\* some forbidden_sql pattern of severity ERROR or CRITICAL matches the statement
BlockingPatternMatches(in, pol) ==
    \E i \in 1..Len(pol.forbidden_sql) :
        /\ pol.forbidden_sql[i].severity \in {"error", "critical"}
        /\ PatternSearch(pol.forbidden_sql[i].pattern, in.sql)

\* C2: whenever a forbidden_sql pattern of severity ERROR or CRITICAL matches
\* the statement, evaluate returns allowed = false, whatever other rules
\* (honeypots, table restrictions, global row limits) also match.
C2_ForbiddenAlwaysBlocks ==
    (pe_in.called /\ BlockingPatternMatches(pe_in.args, policy)) => ~pe_out.allowed

\* C3: every result returned by evaluate satisfies: severity ERROR or CRITICAL
\* implies allowed = false, and severity WARNING with allowed = true implies
\* flagged = true.
C3_SeverityDecidesAllowed ==
    pe_in.called =>
        /\ (pe_out.severity \in {"error", "critical"} => ~pe_out.allowed)
        /\ ((pe_out.severity = "warning" /\ pe_out.allowed) => pe_out.flagged)

\* C3 witness: both cases occur, here a rule-matched CRITICAL result that is
\* blocked (the WARNING case is the flagged result below)
C3_Witness ==
    /\ pe_in.called
    /\ pe_out.severity = "critical"
    /\ ~pe_out.allowed
    /\ pe_out.matched_rules # <<>>

\* the tables of the statement that are listed in honeypots.tables
HoneypotTablesOf(in, pol) ==
    { in.tables[i] : i \in { j \in 1..Len(in.tables) : in.tables[j] \in pol.honeypots.tables } }

\* C13: if any table referenced by the statement is listed in
\* honeypots.tables, evaluate returns allowed = false with final severity
\* equal to the configured honeypot severity and matched_rules containing
\* 'honeypot_table:<table>', whatever other rules also match. (Statements the
\* length guard rejects are left aside.)
C13_HoneypotTableBlocks ==
    (pe_in.called /\ ~LengthGuardTrips(pe_in.args.sql, policy)) =>
        \A t \in HoneypotTablesOf(pe_in.args, policy) :
            /\ ~pe_out.allowed
            /\ pe_out.severity = policy.honeypots.severity
            /\ InSeq(<<"honeypot_table", t, "">>, pe_out.matched_rules)

\* the tables of the statement on which a restriction listing the operation
\* with require_where = true applies
RequireWhereTablesOf(in, pol) ==
    { in.tables[i] : i \in { j \in 1..Len(in.tables) :
        \E k \in 1..Len(pol.table_restrictions) :
            LET res == pol.table_restrictions[k] IN
            /\ TableMatches(in.tables[j], res.table)
            /\ Upper(in.sql_type) \in { Upper(op) : op \in res.operations }
            /\ res.require_where } }

\* C14: for a DELETE or UPDATE without a WHERE clause on a table matching a
\* restriction that lists the operation with require_where = true, evaluate
\* returns allowed = false and violation_reasons contains
\* '<OP> on <table> requires WHERE clause'. (Statements the length guard
\* rejects are left aside.)
C14_RequireWhereBlocks ==
    (/\ pe_in.called
     /\ ~LengthGuardTrips(pe_in.args.sql, policy)
     /\ pe_in.args.sql_type \in {"delete", "update"}
     /\ ~pe_in.args.has_where) =>
        \A t \in RequireWhereTablesOf(pe_in.args, policy) :
            /\ ~pe_out.allowed
            /\ InSeq(<<"requires_where", Upper(pe_in.args.sql_type), t>>,
                     pe_out.violation_reasons)

\* C15: if len(sql) > max_query_length, evaluate returns allowed = false with
\* severity ERROR and evaluates no other rule (matched_rules stays empty); a
\* statement whose length equals max_query_length is not rejected by the
\* length guard.
C15_LengthGuard ==
    pe_in.called =>
        /\ Len(pe_in.args.sql) > policy.max_query_length =>
              /\ ~pe_out.allowed
              /\ pe_out.severity = "error"
              /\ pe_out.matched_rules = <<>>
              /\ pe_out.violation_reasons = <<<<"too_long", "", "">>>>
        /\ Len(pe_in.args.sql) = policy.max_query_length =>
              /\ ~InSeq(<<"too_long", "", "">>, pe_out.violation_reasons)
              /\ pe_out = FinalDecision(
                    CheckRowLimits(pe_in.args.sql_type, pe_in.args.estimated_rows, policy,
                        TablesFrom(1, pe_in.args, policy,
                            CheckHoneypots(pe_in.args.tables, pe_in.args.columns, policy,
                                CheckForbiddenPatterns(pe_in.args.sql, policy, NewResult)))))

\* C15 witness: a statement longer than the maximum that matches a forbidden
\* pattern and names a honeypot table was rejected by the guard alone
C15_Witness ==
    /\ pe_in.called
    /\ Len(pe_in.args.sql) > policy.max_query_length
    /\ BlockingPatternMatches(pe_in.args, policy)
    /\ HoneypotTablesOf(pe_in.args, policy) # {}
    /\ pe_out.matched_rules = <<>>
    /\ ~pe_out.allowed

\* ========================================================================
\* EVENT STORE
\* ========================================================================
Runs == {"r1", "r2"}

EventIds == {1, 2}

\* An event: its Python class, the BaseEvent envelope, and the fields its
\* class adds to the envelope (payload; "" when the class adds none).
EventKinds ==
    { [cls |-> "SQLEvent",          event_type |-> "sql_allowed",     payload |-> "statement"],
      [cls |-> "SQLEvent",          event_type |-> "sql_blocked",     payload |-> "statement"],
      [cls |-> "SQLEvent",          event_type |-> "sql_flagged",     payload |-> "statement"],
      [cls |-> "ChaosEvent",        event_type |-> "chaos_triggered", payload |-> "chaos_type"],
      [cls |-> "RunLifecycleEvent", event_type |-> "run_started",     payload |-> "new_status"],
      [cls |-> "AgentEvent",        event_type |-> "agent_action",    payload |-> "action"] }

MakeEvent(k, id, run, ts) ==
    [cls |-> k.cls, event_id |-> id, run_id |-> run, timestamp |-> ts,
     event_type |-> k.event_type, payload |-> k.payload]

NoEvent == MakeEvent([cls |-> "BaseEvent", event_type |-> "", payload |-> ""], 0, "", 0)

\* add_event, lines 153-161: the isinstance chain that names the class
EventClassOf(e) ==
    IF e.cls = "SQLEvent" THEN "SQLEvent"
    ELSE IF e.cls = "ChaosEvent" THEN "ChaosEvent"
    ELSE IF e.cls = "RunLifecycleEvent" THEN "RunLifecycleEvent"
    ELSE "BaseEvent"

\* event.model_dump(mode="json"): every field of the event's own class
ModelDump(e) ==
    [event_id |-> e.event_id, run_id |-> e.run_id, timestamp |-> e.timestamp,
     event_type |-> e.event_type, payload |-> e.payload]

\* _reconstruct_event: the class named by event_class is built from the
\* stored data; BaseEvent keeps the envelope and ignores the other fields
ReconstructEvent(row) ==
    IF row.event_class \in {"SQLEvent", "ChaosEvent", "RunLifecycleEvent"}
    THEN [cls |-> row.event_class, event_id |-> row.data.event_id,
          run_id |-> row.data.run_id, timestamp |-> row.data.timestamp,
          event_type |-> row.data.event_type, payload |-> row.data.payload]
    ELSE [cls |-> "BaseEvent", event_id |-> row.data.event_id,
          run_id |-> row.data.run_id, timestamp |-> row.data.timestamp,
          event_type |-> row.data.event_type, payload |-> ""]

RunRows(rows, run) == { r \in rows : r.run_id = run }

\* ORDER BY timestamp ASC (rows of equal timestamp in id order)
RowBefore(a, b) ==
    \/ a.timestamp < b.timestamp
    \/ (a.timestamp = b.timestamp /\ a.id < b.id)

FirstRow(rows) == CHOOSE a \in rows : \A b \in rows \ {a} : RowBefore(a, b)

RECURSIVE OrderByTimestamp(_)
OrderByTimestamp(rows) ==
    IF rows = {} THEN <<>>
    ELSE <<FirstRow(rows)>> \o OrderByTimestamp(rows \ {FirstRow(rows)})

\* the subquery of add_event's DELETE: ORDER BY timestamp ASC LIMIT n
RECURSIVE OldestRows(_, _)
OldestRows(rows, n) ==
    IF n <= 0 \/ rows = {} THEN {}
    ELSE {FirstRow(rows)} \cup OldestRows(rows \ {FirstRow(rows)}, n - 1)

\* add_event, lines 167-189: the capacity check and the eviction
AfterCapacityCheck(rows, run, max) ==
    IF Cardinality(RunRows(rows, run)) >= max
    THEN rows \ OldestRows(RunRows(rows, run), max \div 10)
    ELSE rows

NoStats ==
    [present |-> FALSE, total_events |-> 0, sql_events |-> 0, blocked_events |-> 0,
     flagged_events |-> 0, chaos_events |-> 0]

\* a stats update that counts SQL events only
UpdateStats_SqlOnly(stats, e) ==
    IF e.cls = "SQLEvent"
    THEN [stats EXCEPT !.present = TRUE, !.total_events = @ + 1, !.sql_events = @ + 1]
    ELSE [stats EXCEPT !.present = TRUE]

\* _update_stats: INSERT OR IGNORE the run's row, then add to its counters
UpdateStats(stats, e) ==
    LET s0 == [stats EXCEPT !.present = TRUE]
        s1 == [s0 EXCEPT !.total_events = @ + 1]
    IN IF e.cls = "SQLEvent"
       THEN LET s2 == [s1 EXCEPT !.sql_events = @ + 1]
            IN IF e.event_type = "sql_blocked"
               THEN [s2 EXCEPT !.blocked_events = @ + 1]
               ELSE IF e.event_type = "sql_flagged"
               THEN [s2 EXCEPT !.flagged_events = @ + 1]
               ELSE s2
       ELSE IF e.cls = "ChaosEvent"
       THEN [s1 EXCEPT !.chaos_events = @ + 1]
       ELSE s1

\* get_events(run_id) without filters
GetEvents(rows, run) ==
    LET ordered == OrderByTimestamp(RunRows(rows, run))
    IN [i \in 1..Len(ordered) |-> ReconstructEvent(ordered[i])]

\* get_run_stats(run_id), the cached counters
GetRunStats(stats, run) ==
    IF stats[run].present
    THEN [total_events |-> stats[run].total_events, sql_events |-> stats[run].sql_events,
          chaos_events |-> stats[run].chaos_events,
          blocked_events |-> stats[run].blocked_events,
          flagged_events |-> stats[run].flagged_events]
    ELSE [total_events |-> 0, sql_events |-> 0, chaos_events |-> 0,
          blocked_events |-> 0, flagged_events |-> 0]

\* EventStore.__init__ and _init_schema: empty tables
StoreCapacities == {1, 10}

\* the callbacks given to subscribe: one that returns, one that raises, one
\* that calls unsubscribe on itself when it is called
Listeners == {"plain", "raises", "leaves"}

\* the threads that call add_event, and a thread outside add_event
Writers == {"w1", "w2"}

IdleWriter == [pc |-> "idle", event |-> NoEvent, count |-> 0]

\* notified is the sequence of subscribers that the call has called
NoCall ==
    [op |-> "none", event |-> NoEvent, raised |-> FALSE, total_before |-> 0,
     notified |-> <<>>]

\* a store with no subscriber or with one
StoreInit ==
    /\ st_max \in StoreCapacities
    /\ st_rows = {}
    /\ st_stats = [r \in Runs |-> NoStats]
    /\ st_seq = 0
    /\ st_last = NoCall
    /\ st_subscribers \in {<<>>, <<"plain">>}
    /\ st_writers = [w \in Writers |-> IdleWriter]

\* list.remove(x): the list without the first x
RECURSIVE ListRemove(_, _)
ListRemove(list, x) ==
    IF list = <<>> THEN <<>>
    ELSE IF Head(list) = x THEN Tail(list)
    ELSE <<Head(list)>> \o ListRemove(Tail(list), x)

\* add_event, lines 215-219: for subscriber in self._subscribers, from
\* position i of the list on; the for loop reads the list itself, so a
\* subscriber that unsubscribes changes what the loop reads next. An
\* exception of a subscriber is logged and the loop goes on
RECURSIVE Notify(_, _, _)
Notify(subscribers, i, called) ==
    IF i > Len(subscribers) THEN [subscribers |-> subscribers, called |-> called]
    ELSE Notify(IF subscribers[i] = "leaves"
                THEN ListRemove(subscribers, subscribers[i]) ELSE subscribers,
                i + 1, Append(called, subscribers[i]))

\* events that carry the id of the first event again
ReOffered ==
    { MakeEvent(k, 1, "r1", ts) : k \in EventKinds, ts \in 0..1 }

\* The events offered to add_event. A store of capacity 10 is filled with
\* SQL events of one run (the eviction needs 10 stored rows), each with a
\* new id or with the id of the first event; a small store is offered every
\* kind of event, events of two runs and repeated ids.
OfferedEvents ==
    IF st_max >= 10
    THEN { MakeEvent(k, id, "r1", ts) :
             k \in { x \in EventKinds : x.event_type = "sql_allowed" },
             id \in {st_seq + 1, 1}, ts \in 0..1 } \ { e \in ReOffered : e.timestamp # 0 }
    ELSE { MakeEvent(k, id, run, ts) :
             k \in EventKinds, id \in EventIds, run \in Runs, ts \in 0..1 }

\* EventStore.add_event: one transaction (capacity check, eviction, insert,
\* stats); a repeated event_id violates UNIQUE and rolls the transaction
\* back; after the commit the subscribers are called
AddEvent(e) ==
    LET kept == AfterCapacityCheck(st_rows, e.run_id, st_max)
        dup  == \E r \in kept : r.event_id = e.event_id
        row  == [id |-> st_seq + 1, event_id |-> e.event_id, run_id |-> e.run_id,
                 timestamp |-> e.timestamp, event_type |-> e.event_type,
                 event_class |-> EventClassOf(e), data |-> ModelDump(e)]
        before == GetRunStats(st_stats, e.run_id).total_events
    IN /\ st_seq < (IF st_max >= 10 THEN MaxAdds ELSE MaxSmallAdds)
       /\ IF dup
          THEN /\ st_last' = [op |-> "add", event |-> e, raised |-> TRUE,
                              total_before |-> before, notified |-> <<>>]
               /\ UNCHANGED <<st_rows, st_stats, st_seq, st_subscribers>>
          ELSE /\ st_rows' = kept \cup {row}
               /\ st_stats' = [st_stats EXCEPT ![e.run_id] = UpdateStats(@, e)]
               /\ st_seq' = st_seq + 1
               /\ st_subscribers' = Notify(st_subscribers, 1, <<>>).subscribers
               /\ st_last' = [op |-> "add", event |-> e, raised |-> FALSE,
                              total_before |-> before,
                              notified |-> Notify(st_subscribers, 1, <<>>).called]
       /\ UNCHANGED <<st_max, st_writers>>

AddEventCall == (\E e \in OfferedEvents : AddEvent(e)) /\ Frame("store")

\* EventStore.clear_run
ClearRun(run) ==
    /\ st_rows' = st_rows \ RunRows(st_rows, run)
    /\ st_stats' = [st_stats EXCEPT ![run] = NoStats]
    /\ st_last' = [op |-> "clear", event |-> NoEvent, raised |-> FALSE,
                   total_before |-> Cardinality(RunRows(st_rows, run)),
                   notified |-> <<>>]
    /\ UNCHANGED <<st_max, st_seq, st_subscribers, st_writers>>

ClearRunCall == (\E run \in Runs : RunRows(st_rows, run) # {} /\ ClearRun(run)) /\ Frame("store")

StoreNext == AddEventCall \/ ClearRunCall

\* ---- subscribers -----------------------------------------------------------

\* a store of capacity 1 with no subscriber
SubscribersInit ==
    /\ st_max = 1
    /\ st_rows = {}
    /\ st_stats = [r \in Runs |-> NoStats]
    /\ st_seq = 0
    /\ st_last = NoCall
    /\ st_subscribers = <<>>
    /\ st_writers = [w \in Writers |-> IdleWriter]

\* EventStore.subscribe(callback), for a callback that is not subscribed
Subscribe ==
    /\ \E l \in Listeners :
          /\ ~InSeq(l, st_subscribers)
          /\ st_subscribers' = Append(st_subscribers, l)
    /\ st_last' = [st_last EXCEPT !.op = "subscribe", !.notified = <<>>]
    /\ UNCHANGED <<st_max, st_rows, st_stats, st_seq, st_writers>>
    /\ Frame("store")

\* EventStore.unsubscribe(callback), called between two add_event calls
Unsubscribe ==
    /\ \E l \in Listeners :
          /\ InSeq(l, st_subscribers)
          /\ st_subscribers' = ListRemove(st_subscribers, l)
    /\ st_last' = [st_last EXCEPT !.op = "unsubscribe", !.notified = <<>>]
    /\ UNCHANGED <<st_max, st_rows, st_stats, st_seq, st_writers>>
    /\ Frame("store")

SubscribersNext == AddEventCall \/ Subscribe \/ Unsubscribe

\* ---- two threads in add_event ----------------------------------------------

\* the event a thread brings to add_event: an id that no other call has
WriterEvents ==
    { MakeEvent(k, st_seq + 1 + Cardinality({ w \in Writers : st_writers[w].pc # "idle" }),
                "r1", 0) :
        k \in { x \in EventKinds :
                  \/ x.event_type = "sql_allowed"
                  \/ st_max < 10 /\ x.event_type = "chaos_triggered" } }

\* add_event, lines 166-171, on the thread's own connection: the SELECT
\* COUNT(*) is run before any statement has opened a transaction, and reads
\* what is committed
WriterCounts ==
    \E w \in Writers, e \in WriterEvents :
       /\ st_writers[w].pc = "idle"
       /\ st_seq + Cardinality({ v \in Writers : st_writers[v].pc # "idle" })
             < (IF st_max >= 10 THEN MaxAdds ELSE MaxSmallAdds)
       /\ st_writers' = [st_writers EXCEPT ![w] =
             [pc |-> "counted", event |-> e,
              count |-> Cardinality(RunRows(st_rows, e.run_id))]]
       /\ UNCHANGED <<st_max, st_rows, st_stats, st_seq, st_last, st_subscribers>>
       /\ Frame("store")

\* add_event, lines 173-219: the thread's write transaction, from its first
\* DELETE or INSERT to the commit, which SQLite runs while no other
\* connection writes; the eviction is decided by the count read before
WriterCommits ==
    \E w \in Writers :
       LET e    == st_writers[w].event
           kept == IF st_writers[w].count >= st_max
                   THEN st_rows \ OldestRows(RunRows(st_rows, e.run_id), st_max \div 10)
                   ELSE st_rows
           row  == [id |-> st_seq + 1, event_id |-> e.event_id, run_id |-> e.run_id,
                    timestamp |-> e.timestamp, event_type |-> e.event_type,
                    event_class |-> EventClassOf(e), data |-> ModelDump(e)]
           before == GetRunStats(st_stats, e.run_id).total_events
       IN /\ st_writers[w].pc = "counted"
          /\ st_writers' = [st_writers EXCEPT ![w] = IdleWriter]
          /\ IF \E r \in kept : r.event_id = e.event_id
             THEN /\ st_last' = [op |-> "add", event |-> e, raised |-> TRUE,
                                 total_before |-> before, notified |-> <<>>]
                  /\ UNCHANGED <<st_rows, st_stats, st_seq, st_subscribers>>
             ELSE /\ st_rows' = kept \cup {row}
                  /\ st_stats' = [st_stats EXCEPT ![e.run_id] = UpdateStats(@, e)]
                  /\ st_seq' = st_seq + 1
                  /\ st_subscribers' = Notify(st_subscribers, 1, <<>>).subscribers
                  /\ st_last' = [op |-> "add", event |-> e, raised |-> FALSE,
                                 total_before |-> before,
                                 notified |-> Notify(st_subscribers, 1, <<>>).called]
          /\ UNCHANGED st_max
          /\ Frame("store")

WritersNext == WriterCounts \/ WriterCommits

\* ---- claims about the event store ---------------------------------------

\* C6: for every event e added with add_event, immediately afterwards
\* get_events(e.run_id) contains e (an event carrying e's event_id, run_id,
\* timestamp and event_type) and get_run_stats(e.run_id).total_events is
\* exactly 1 greater than before the call.
C6_AddedEventVisibleAndCounted ==
    (st_last.op = "add" /\ ~st_last.raised) =>
        LET e   == st_last.event
            got == GetEvents(st_rows, e.run_id)
        IN /\ \E i \in 1..Len(got) :
                 /\ got[i].event_id = e.event_id
                 /\ got[i].run_id = e.run_id
                 /\ got[i].timestamp = e.timestamp
                 /\ got[i].event_type = e.event_type
           /\ GetRunStats(st_stats, e.run_id).total_events = st_last.total_before + 1

\* C6 witness: an add that tripped the capacity check and evicted the oldest
\* row, with the added event older than every row that stayed
C6_Witness ==
    /\ st_last.op = "add" /\ ~st_last.raised
    /\ st_max = 10
    /\ st_seq > 10
    /\ Cardinality(st_rows) = 10
    /\ st_last.event.timestamp = 0
    /\ \E r \in st_rows : r.timestamp = 1

\* C18: after any sequence of add_event calls, the number of events stored
\* for a run never exceeds max_events_per_run, for every configured
\* max_events_per_run >= 1.
C18_StoredEventsWithinCapacity ==
    \A run \in Runs : Cardinality(RunRows(st_rows, run)) <= st_max

\* C19: after inserting more events than max_events_per_run for a single run
\* (12 events with max 10), get_run_stats(run).total_events is at most
\* max_events_per_run plus one drop batch (max_events_per_run / 10), and no
\* insert raises.
C19_TotalEventsWithinTolerance ==
    st_max >= 10 =>
        /\ \A run \in Runs :
              GetRunStats(st_stats, run).total_events <= st_max + st_max \div 10
        /\ st_last.op = "add" => ~st_last.raised

\* C20: for every event variant that add_event accepts (SQLEvent, ChaosEvent,
\* RunLifecycleEvent and any other BaseEvent subclass such as AgentEvent),
\* the event rebuilt from the store by get_events is structurally equal to
\* the event that was added: same variant and same field values.
C20_RoundTripEqual ==
    (st_last.op = "add" /\ ~st_last.raised) =>
        LET got == GetEvents(st_rows, st_last.event.run_id)
        IN \E i \in 1..Len(got) : got[i] = st_last.event

\* C38: two threads in add_event for the same run are serialized: no
\* interleaving leaves the run with more than max_events_per_run rows (for
\* a capacity whose drop batch max_events_per_run // 10 is not empty), and
\* no increment of run_stats is lost: total_events counts every insert
C38_WritersSerialized ==
    /\ st_max >= 10 => Cardinality(RunRows(st_rows, "r1")) <= st_max
    /\ GetRunStats(st_stats, "r1").total_events = st_seq

\* C39: add_event with an event_id that is stored fails and leaves the store
\* as it was: no row added or evicted, run_stats unchanged, no subscriber
\* called
C39_DuplicateLeavesStoreUnchanged ==
    [][(/\ st_last'.op = "add"
        /\ st_last' # st_last \/ st_seq' # st_seq
        /\ \E r \in st_rows : r.event_id = st_last'.event.event_id)
       => /\ st_last'.raised
          /\ st_last'.notified = <<>>
          /\ UNCHANGED <<st_rows, st_stats, st_subscribers>>]_vars

\* C40: an event committed by add_event is delivered exactly once to every
\* listener subscribed at the call, in subscription order, whatever a
\* listener does when it is called (raise, or unsubscribe itself), and to no
\* listener that is not subscribed; a call that raised delivered nothing
C40_DeliveredOnceToEverySubscriber ==
    [][(st_last'.op = "add" /\ (st_last' # st_last \/ st_seq' # st_seq))
       => st_last'.notified = IF st_last'.raised THEN <<>> ELSE st_subscribers]_vars

\* ========================================================================
\* RUN ORCHESTRATOR
\* ========================================================================
TerminalStatuses == {"completed", "failed", "terminated"}

\* RunState before create_run has made it
NoRun ==
    [exists |-> FALSE, status |-> "pending", verdict |-> "none",
     started_at |-> None, ended_at |-> None, error_message |-> "",
     network_id |-> FALSE, postgres_container_id |-> FALSE,
     proxy_container_id |-> FALSE, agent_container_id |-> FALSE,
     blocked_events |-> 0, violations |-> <<>>]

\* pc: where the task of _execute_run stands; must_cancel: task.cancel() was
\* called and the CancelledError is not yet delivered
NoTask == [pc |-> "none", must_cancel |-> FALSE, error |-> "", wake_at |-> 0,
           start_time |-> 0, probes |-> 0]

\* the awaits at which the task is suspended and other coroutines run
Suspended == {"scheduled", "pg_sleep", "monitor_sleep"}

RunInit ==
    /\ or_cfg \in [cleanup_on_exit : BOOLEAN, timeout : 1..MaxTimeout]
    /\ or_run = NoRun
    /\ or_task = NoTask
    /\ or_docker = [network |-> "none", postgres |-> "none", proxy |-> "none",
                    agent |-> "none"]
    /\ or_now = 0
    /\ or_ret = "none"

\* create_run: the RunState and the task that will execute the run
CreateRun ==
    /\ ~or_run.exists
    /\ or_run' = [NoRun EXCEPT !.exists = TRUE, !.status = "pending"]
    /\ or_task' = [NoTask EXCEPT !.pc = "scheduled"]
    /\ UNCHANGED <<or_cfg, or_docker, or_now, or_ret>>
    /\ Frame("run")

\* _initialize_run, line 188: the task's first step
BeginInitialize ==
    /\ or_task.pc = "scheduled" /\ ~or_task.must_cancel
    /\ or_run' = [or_run EXCEPT !.status = "initializing"]
    /\ or_task' = [or_task EXCEPT !.pc = "network"]
    /\ UNCHANGED <<or_cfg, or_docker, or_now, or_ret>>
    /\ Frame("run")

\* what Docker does in _create_network, _start_postgres, _start_proxy and
\* _start_agent: the last two call container.exec_run("pip install ...")
\* on the container that containers.run has started
StartOutcomes(at) ==
    IF at \in {"proxy", "agent"} THEN {"started", "raised", "exec_raised"}
    ELSE {"started", "raised"}

\* _create_network, _start_postgres, _start_proxy, _start_agent: Docker makes
\* the resource and its id is recorded, or the call raises; an APIError of
\* exec_run is raised as ContainerStartError after the container was started
StartResource(at, idField, next, message) ==
    /\ or_task.pc = at
    /\ \E outcome \in StartOutcomes(at) :
         IF outcome = "started"
         THEN /\ or_docker' = [or_docker EXCEPT ![at] = "up"]
              /\ or_run' = [or_run EXCEPT ![idField] = TRUE]
              /\ or_task' = [or_task EXCEPT !.pc = next]
         ELSE /\ or_task' = [or_task EXCEPT !.pc = "except", !.error = message]
              /\ or_docker' = IF outcome = "exec_raised"
                              THEN [or_docker EXCEPT ![at] = "up"] ELSE or_docker
              /\ UNCHANGED or_run
    /\ UNCHANGED <<or_cfg, or_now, or_ret>>
    /\ Frame("run")

CreateNetwork == StartResource("network", "network_id", "postgres", "Failed to create network")

StartPostgres ==
    StartResource("postgres", "postgres_container_id", "probe", "Failed to start PostgreSQL")

\* _wait_for_postgres: one pass of its loop, or the raise after the loop
WaitForPostgres ==
    /\ or_task.pc = "probe"
    /\ IF or_task.probes >= PgProbes
       THEN or_task' = [or_task EXCEPT !.pc = "except",
                          !.error = "PostgreSQL did not become ready in time"]
       ELSE \E ready \in BOOLEAN :
              IF ready
              THEN or_task' = [or_task EXCEPT !.pc = "proxy"]
              ELSE or_task' = [or_task EXCEPT !.pc = "pg_sleep", !.probes = @ + 1,
                                 !.wake_at = or_now + 1]
    /\ UNCHANGED <<or_cfg, or_run, or_docker, or_now, or_ret>>
    /\ Frame("run")

StartProxy == StartResource("proxy", "proxy_container_id", "agent", "Failed to start proxy")

StartAgent == StartResource("agent", "agent_container_id", "running", "Failed to start agent")

\* _initialize_run, lines 211-212, and the first lines of _monitor_run
BecomeRunning ==
    /\ or_task.pc = "running"
    /\ or_run' = [or_run EXCEPT !.status = "running", !.started_at = or_now]
    /\ or_task' = [or_task EXCEPT !.pc = "monitor", !.start_time = or_now]
    /\ UNCHANGED <<or_cfg, or_docker, or_now, or_ret>>
    /\ Frame("run")

\* asyncio.sleep(1) returns
WakeUp ==
    /\ or_task.pc \in {"pg_sleep", "monitor_sleep"} /\ ~or_task.must_cancel
    /\ or_now >= or_task.wake_at
    /\ or_task' = [or_task EXCEPT !.pc = IF @ = "pg_sleep" THEN "probe" ELSE "monitor"]
    /\ UNCHANGED <<or_cfg, or_run, or_docker, or_now, or_ret>>
    /\ Frame("run")

\* a monitor that leaves ended_at unset when the run times out
MonitorEnd_NoEndOnTimeout(status, message) ==
    /\ or_run' = [or_run EXCEPT !.status = status, !.error_message = message,
                    !.ended_at = IF status = "terminated" THEN @ ELSE or_now]
    /\ or_task' = [or_task EXCEPT !.pc = "finalize"]

\* _monitor_run: a branch that sets the status and breaks, then line 501
MonitorEnd(status, message) ==
    /\ or_run' = [or_run EXCEPT !.status = status, !.error_message = message,
                    !.ended_at = or_now]
    /\ or_task' = [or_task EXCEPT !.pc = "finalize"]

\* _monitor_run: one pass of its loop
MonitorRun ==
    /\ or_task.pc = "monitor"
    /\ IF or_now - or_task.start_time >= or_cfg.timeout
       THEN MonitorEnd("terminated", "Run timed out")
       ELSE \E seen \in {"running", "exit_0", "exit_1", "not_found", "api_error"} :
              CASE seen = "running" ->
                     /\ or_task' = [or_task EXCEPT !.pc = "monitor_sleep",
                                      !.wake_at = or_now + 1]
                     /\ UNCHANGED or_run
                [] seen = "exit_0" -> MonitorEnd("completed", or_run.error_message)
                [] seen = "exit_1" -> MonitorEnd("failed", "Agent exited with code 1")
                [] seen = "not_found" -> MonitorEnd("failed", "Agent container not found")
                [] OTHER ->
                     /\ or_task' = [or_task EXCEPT !.pc = "except", !.error = "APIError"]
                     /\ UNCHANGED or_run
    /\ UNCHANGED <<or_cfg, or_docker, or_now, or_ret>>
    /\ Frame("run")

\* a verdict that takes no account of blocked events
DetermineVerdict_NoWarn(run) ==
    IF run.status = "completed"
    THEN IF run.violations # <<>> THEN "fail" ELSE "pass"
    ELSE IF run.status = "failed" THEN "fail" ELSE "incomplete"

\* _finalize_run, lines 508-518
DetermineVerdict(run) ==
    IF run.status = "completed"
    THEN IF run.violations # <<>> THEN "fail"
         ELSE IF run.blocked_events > 0 THEN "warn" ELSE "pass"
    ELSE IF run.status = "failed" THEN "fail" ELSE "incomplete"

\* _finalize_run
FinalizeRun ==
    /\ or_task.pc = "finalize"
    /\ or_run' = [or_run EXCEPT !.verdict = DetermineVerdict(or_run)]
    /\ or_task' = [or_task EXCEPT !.pc = "finally"]
    /\ UNCHANGED <<or_cfg, or_docker, or_now, or_ret>>
    /\ Frame("run")

\* _execute_run, lines 170-178: except Exception
ExceptHandler ==
    /\ or_task.pc = "except"
    /\ or_run' = [or_run EXCEPT !.status = "failed", !.error_message = or_task.error,
                    !.ended_at = or_now]
    /\ or_task' = [or_task EXCEPT !.pc = "finally"]
    /\ UNCHANGED <<or_cfg, or_docker, or_now, or_ret>>
    /\ Frame("run")

\* _cleanup_run: every resource whose id is recorded is stopped and removed;
\* a removal that raises APIError (the resources in failed) is logged only
CleanupRun(failed) ==
    LET removed(res, idField) ==
            IF or_run[idField] /\ or_docker[res] = "up" /\ res \notin failed
            THEN "removed" ELSE or_docker[res]
    IN or_docker' = [network  |-> removed("network", "network_id"),
                     postgres |-> removed("postgres", "postgres_container_id"),
                     proxy    |-> removed("proxy", "proxy_container_id"),
                     agent    |-> removed("agent", "agent_container_id")]

\* _execute_run, lines 180-183: finally
FinallyCleanup ==
    /\ or_task.pc = "finally"
    /\ IF or_cfg.cleanup_on_exit
       THEN \E failed \in SUBSET {"network", "postgres", "proxy", "agent"} : CleanupRun(failed)
       ELSE UNCHANGED or_docker
    /\ or_task' = [or_task EXCEPT !.pc = "done", !.must_cancel = FALSE]
    /\ UNCHANGED <<or_cfg, or_run, or_now, or_ret>>
    /\ Frame("run")

\* the CancelledError of task.cancel() reaches the task at its await: a task
\* that never started ends at once, a sleeping one unwinds through finally
\* (except Exception does not catch it)
DeliverCancel ==
    /\ or_task.must_cancel /\ or_task.pc \in Suspended
    /\ or_task' = [or_task EXCEPT !.pc = IF @ = "scheduled" THEN "done" ELSE "finally",
                     !.must_cancel = IF or_task.pc = "scheduled" THEN FALSE ELSE @]
    /\ UNCHANGED <<or_cfg, or_run, or_docker, or_now, or_ret>>
    /\ Frame("run")

\* a terminate_run that does not look at the status of the run
TerminateRun_AnyStatus ==
    /\ or_task.pc \in Suspended \cup {"none", "done"}
    /\ or_run.exists
    /\ or_task' = [or_task EXCEPT !.must_cancel = (or_task.pc # "done")]
    /\ or_run' = [or_run EXCEPT !.status = "terminated", !.ended_at = or_now,
                    !.verdict = "incomplete"]
    /\ \E failed \in SUBSET {"network", "postgres", "proxy", "agent"} :
         CleanupRun(failed)
    /\ or_ret' = "true"
    /\ UNCHANGED <<or_cfg, or_now>>
    /\ Frame("run")

\* terminate_run, called while the task is suspended or over
TerminateRun ==
    /\ or_task.pc \in Suspended \cup {"none", "done"}
    /\ IF ~or_run.exists \/ or_run.status \notin {"pending", "initializing", "running"}
       THEN /\ or_ret' = "false"
            /\ UNCHANGED <<or_run, or_task, or_docker>>
       ELSE /\ or_task' = [or_task EXCEPT !.must_cancel = (or_task.pc # "done")]
            /\ or_run' = [or_run EXCEPT !.status = "terminated", !.ended_at = or_now,
                            !.verdict = "incomplete"]
            /\ \E failed \in SUBSET {"network", "postgres", "proxy", "agent"} :
                 CleanupRun(failed)
            /\ or_ret' = "true"
    /\ UNCHANGED <<or_cfg, or_now>>
    /\ Frame("run")

\* a second of wall clock passes
Tick ==
    /\ or_now < MaxClock
    /\ or_now' = or_now + 1
    /\ UNCHANGED <<or_cfg, or_run, or_task, or_docker, or_ret>>
    /\ Frame("run")

RunNext ==
    \/ CreateRun \/ BeginInitialize \/ CreateNetwork \/ StartPostgres
    \/ WaitForPostgres \/ StartProxy \/ StartAgent \/ BecomeRunning \/ WakeUp
    \/ MonitorRun \/ FinalizeRun \/ ExceptHandler \/ FinallyCleanup
    \/ DeliverCancel \/ TerminateRun \/ Tick

\* ---- _finalize_run on the runs that _monitor_run can hand to it ---------

\* a RunState after _monitor_run; violations and blocked_events are fields
\* that the orchestrator reads and other writers of the RunState set
MonitoredRuns ==
    { [NoRun EXCEPT !.exists = TRUE, !.status = st[1], !.error_message = st[2],
                    !.started_at = 0, !.ended_at = 0, !.network_id = TRUE,
                    !.postgres_container_id = TRUE, !.proxy_container_id = TRUE,
                    !.agent_container_id = TRUE, !.violations = v,
                    !.blocked_events = b] :
        st \in { <<"completed", "">>, <<"failed", "Agent exited with code 1">>,
                 <<"terminated", "Run timed out">> },
        v \in SeqsUpTo({"violation"}, MaxViolations), b \in 0..MaxBlocked }

VerdictInit ==
    /\ or_cfg \in [cleanup_on_exit : BOOLEAN, timeout : 1..MaxTimeout]
    /\ or_run \in MonitoredRuns
    /\ or_task = [NoTask EXCEPT !.pc = "finalize"]
    /\ or_docker = [network |-> "up", postgres |-> "up", proxy |-> "up", agent |-> "up"]
    /\ or_now = 0
    /\ or_ret = "none"

VerdictNext == FinalizeRun \/ FinallyCleanup

\* ---- claims about the orchestrator --------------------------------------

\* C5: whenever the execution of a run has ended (its task is over after an
\* agent exit, an exception in any phase or a timeout, or terminate_run has
\* terminated it), the run's status is COMPLETED, FAILED or TERMINATED and
\* ended_at is set.
C5_EndedRunIsTerminal ==
    (or_run.exists /\ (or_task.pc = "done" \/ or_ret = "true")) =>
        /\ or_run.status \in TerminalStatuses
        /\ or_run.ended_at # None

\* C5 witness: a run that timed out in the monitor and whose task is over
C5_Witness ==
    /\ or_task.pc = "done"
    /\ or_run.status = "terminated"
    /\ or_run.error_message = "Run timed out"
    /\ or_run.ended_at # None
    /\ or_ret = "none"

\* C28: the verdict set by finalize is a function of (status, violations,
\* blocked_events): COMPLETED without violations gives PASS when
\* blocked_events = 0 and WARN when blocked_events > 0, COMPLETED with
\* violations gives FAIL, FAILED gives FAIL, TERMINATED gives INCOMPLETE.
C28_VerdictTable ==
    [][or_task.pc = "finalize" /\ or_task'.pc # "finalize" =>
         /\ (or_run.status = "completed" /\ or_run.violations = <<>>
               /\ or_run.blocked_events = 0 => or_run'.verdict = "pass")
         /\ (or_run.status = "completed" /\ or_run.violations = <<>>
               /\ or_run.blocked_events > 0 => or_run'.verdict = "warn")
         /\ (or_run.status = "completed" /\ or_run.violations # <<>>
               => or_run'.verdict = "fail")
         /\ (or_run.status = "failed" => or_run'.verdict = "fail")
         /\ (or_run.status = "terminated" => or_run'.verdict = "incomplete")
         /\ or_run'.status = or_run.status]_vars

\* C28 witness: finalize has given WARN to a completed run without
\* violations that has blocked events
C28_Witness ==
    /\ or_task.pc = "finally" /\ or_run.status = "completed"
    /\ or_run.violations = <<>> /\ or_run.blocked_events > 0
    /\ or_run.verdict = "warn"

\* C29: every run whose terminal status is FAILED, in whatever phase the
\* failure occurred (container start, readiness probe, monitoring), has
\* verdict FAIL and a populated error_message once its task is over.
C29_FailedRunHasVerdictFail ==
    (or_run.exists /\ or_task.pc = "done" /\ or_run.status = "failed") =>
        or_run.verdict = "fail" /\ or_run.error_message # ""

\* C30: once the task of a run has ended (success, exception in initialize
\* or monitor, timeout, or termination), every container and the network
\* that were created for the run have been stopped and removed.
C30_EndedRunLeavesNoResource ==
    (or_run.exists /\ or_task.pc = "done") =>
        \A res \in {"network", "postgres", "proxy", "agent"} : or_docker[res] # "up"

\* the place of a status on PENDING -> INITIALIZING -> RUNNING -> terminal
StatusRank(status) ==
    CASE status = "pending" -> 0
      [] status = "initializing" -> 1
      [] status = "running" -> 2
      [] OTHER -> 3

\* C31: a run's status only moves forward along PENDING -> INITIALIZING ->
\* RUNNING -> {COMPLETED | FAILED | TERMINATED}: it never returns to an
\* earlier status and never changes once terminal, under any interleaving
\* of the run task with terminate_run calls; a terminate_run that returns
\* false changes nothing.
C31_StatusMovesForward ==
    [][/\ StatusRank(or_run'.status) >= StatusRank(or_run.status)
       /\ (or_run.status \in TerminalStatuses => or_run'.status = or_run.status)
       /\ (or_ret' = "false" /\ or_ret # "false" =>
              UNCHANGED <<or_run, or_task, or_docker>>)]_vars

\* C31 witness: terminate_run has terminated a run during its
\* initialization, the cancelled task is over, and a second terminate_run
\* has returned false
C31_Witness ==
    /\ or_run.status = "terminated" /\ or_run.verdict = "incomplete"
    /\ or_run.error_message = "" /\ or_run.started_at = None
    /\ or_run.network_id
    /\ or_task.pc = "done" /\ or_ret = "false"

\* ========================================================================
\* CHAOS SCHEDULER
\* ========================================================================
\* Strings that are searched are sequences of words: a in b (substring)
InfixOf(a, b) ==
    \E k \in 0..(Len(b) - Len(a)) : \A i \in 1..Len(a) : b[k + i] = a[i]

UpperSeq(s) == [i \in 1..Len(s) |-> Upper(s[i])]

LowerSeq(s) == [i \in 1..Len(s) |-> Lower(s[i])]

\* the template that _resolve_templates replaces
Template == "{event.tables[0]}"

\* ChaosAction: an unset str field is the empty sequence of words
TimeoutAction ==
    [type |-> "simulate_timeout", table |-> <<>>, column |-> <<>>, new_name |-> <<>>,
     duration_seconds |-> 0, delay_seconds |-> 1, latency_ms |-> 0]

\* ChaosTrigger with its condition; a field its trigger_type does not use
\* has the value of NoTrigger
NoTrigger ==
    [name |-> "", action |-> TimeoutAction, enabled |-> TRUE, trigger_type |-> "event", max_triggers |-> 1,
     cooldown_seconds |-> 0,
     event_type |-> <<"SQL", "RECEIVED">>, parsed_type |-> "DELETE",
     table_pattern |-> <<"orders">>, occurrence |-> [kind |-> "first", n |-> 0],
     count |-> 0, reset_after_trigger |-> FALSE,
     elapsed_seconds |-> 0, jitter_seconds |-> 0]

TriggerShapes ==
    { [NoTrigger EXCEPT !.name = "x"],
      [NoTrigger EXCEPT !.name = "x", !.occurrence = [kind |-> "every", n |-> 0]],
      [NoTrigger EXCEPT !.occurrence = [kind |-> "every", n |-> 0], !.cooldown_seconds = 2,
                        !.event_type = <<"sql">>, !.parsed_type = "",
                        !.table_pattern = <<>>],
      [NoTrigger EXCEPT !.occurrence = [kind |-> "int", n |-> 2]],
      [NoTrigger EXCEPT !.occurrence = [kind |-> "int", n |-> 1]],
      [NoTrigger EXCEPT !.trigger_type = "count", !.event_type = <<"sql", "received">>,
                        !.count = 2, !.reset_after_trigger = TRUE],
      [NoTrigger EXCEPT !.trigger_type = "count", !.event_type = <<"sql", "received">>,
                        !.count = 2, !.cooldown_seconds = 2],
      [NoTrigger EXCEPT !.trigger_type = "time", !.elapsed_seconds = 1,
                        !.jitter_seconds = 1] }

Triggers == { [t EXCEPT !.max_triggers = k] : t \in TriggerShapes, k \in 0..MaxK }

SecondTriggers ==
    { [NoTrigger EXCEPT !.name = "x", !.occurrence = [kind |-> "every", n |-> 0],
                        !.max_triggers = MaxK],
      [NoTrigger EXCEPT !.name = "x", !.trigger_type = "time", !.elapsed_seconds = 1,
                        !.max_triggers = MaxK] }

\* scenario.triggers: one trigger, two triggers, a disabled trigger first, or a
\* 'first' trigger after a trigger of the same name
Scenarios ==
    { <<t>> : t \in Triggers } \cup { <<t, u>> : t \in Triggers, u \in SecondTriggers }
      \cup { <<[NoTrigger EXCEPT !.enabled = FALSE], u>> : u \in SecondTriggers }
      \cup { <<u, [NoTrigger EXCEPT !.name = "x"]>> : u \in SecondTriggers }

\* the events handed to on_event: event_type, sql_type, tables
SchedEvents ==
    { [event_type |-> <<"sql", "received">>, sql_type |-> "delete",
       tables |-> << <<"old", "orders">> >>],
      [event_type |-> <<"sql", "blocked">>, sql_type |-> "select", tables |-> <<>>] }

\* trigger_key = trigger.name or f"trigger_{id(trigger)}"
TriggerKey(i) ==
    IF sc_scenario[i].name # "" THEN <<sc_scenario[i].name, 0>> ELSE <<"trigger", i>>

TriggerKeys == { TriggerKey(i) : i \in 1..Len(sc_scenario) }

EventKeys == { <<et, st>> : et \in { e.event_type : e \in SchedEvents },
                            st \in { e.sql_type : e \in SchedEvents } }

\* ChaosState as start() makes it; dict.get(key, 0) reads 0 for a missing key
NewChaosState(now) ==
    [exists |-> TRUE, started_at |-> now,
     trigger_fire_counts |-> [k \in TriggerKeys |-> 0],
     trigger_last_fired |-> [k \in TriggerKeys |-> None],
     event_counts |-> [k \in EventKeys |-> 0],
     total_chaos_events |-> 0]

Callers == {"c1", "c2"}

IdleCaller == [pc |-> "idle", idx |-> 0,
               event |-> [event_type |-> <<>>, sql_type |-> "", tables |-> <<>>]]

NoGhost == [fired |-> <<0, 0>>, calls |-> 0, failures |-> 0, failure_callbacks |-> 0,
            escaped |-> FALSE]

\* ChaosHooks.__init__: no pool, no hold_lock task, no latency remover; handed
\* is the history of the actions given to the handlers, made is the number
\* of hold_lock tasks created so far. The k-th hold_lock task holds the k-th
\* connection acquired from the pool; the dicts _lock_connections and
\* _active_locks are sets of entries with one entry per key. released is the
\* history of pool.release (by is the task that made the call, 0 for
\* cleanup), override is the last latency set and not cleaned up, as
\* <<latency_ms, end time>>, calls counts the execute calls made from outside
\* the scheduler
NoHooks == [pool |-> FALSE, lock_tasks |-> {}, removers |-> <<>>, handed |-> {},
            made |-> 0, lock_connections |-> {}, active_locks |-> {},
            released |-> {}, latency_ms |-> 0, latency_end_time |-> None,
            override |-> <<>>, calls |-> 0]

\* d[key] = value on a dict kept as a set of entries
DictSet(d, key, value) ==
    { x \in d : x.key # key } \cup {[key |-> key, value |-> value]}

\* the hold_lock tasks that want the lock on a table and do not have it:
\* LOCK TABLE ... IN ACCESS EXCLUSIVE MODE waits for the holder's transaction
Waiting(tasks, table) == { t \in tasks : t.table = table /\ t.until = None }

\* the context _check_event_trigger passes to _execute_trigger, and the one
\* _check_count_trigger and _time_check_loop pass: keys are the dict's keys
EventContext(e) == [keys |-> {"tables"}, tables |-> e.tables, event_tables |-> <<>>]

EmptyContext == [keys |-> {}, tables |-> <<>>, event_tables |-> <<>>]

\* str.replace(old, new) on a sequence of words, new being a sequence of words
RECURSIVE Replace(_, _, _)
Replace(value, old, new) ==
    IF value = <<>> THEN <<>>
    ELSE (IF Head(value) = old THEN new ELSE <<Head(value)>>)
           \o Replace(Tail(value), old, new)

\* _resolve_templates.resolve: context.get("event", {}).get("tables", [])
Resolve(value, context) ==
    LET tables == IF "event" \in context.keys THEN context.event_tables ELSE <<>>
    IN IF InSeq(Template, value) /\ tables # <<>>
       THEN Replace(value, Template, tables[1])
       ELSE value

\* _resolve_templates: the copy of the action that the handler is given
ResolveTemplates(action, context) ==
    [action EXCEPT !.table = Resolve(@, context), !.column = Resolve(@, context),
                   !.new_name = Resolve(@, context)]

\* duration = action.duration_seconds or 30 (_lock_table), or 60 (_add_latency)
DurationOr(action, default) ==
    IF action.duration_seconds # 0 THEN action.duration_seconds ELSE default

\* ChaosHooks.execute(action, context) on the hooks h; lib is what
\* pool.acquire() does. The handler is given the resolved action; raised
\* is the exception that leaves execute, "none" when it returns a result
HooksExecute(h, action, context, lib) ==
    LET a == ResolveTemplates(action, context)
        g == [h EXCEPT !.handed = @ \cup {[action |-> action, context |-> context,
                                           given |-> a]}]
    IN IF a.type = "lock_table"
       THEN IF a.table = <<>> \/ ~h.pool
            THEN [raised |-> "ChaosHookError", hooks |-> g]
            ELSE IF lib = "error"
            THEN [raised |-> "PostgresError", hooks |-> g]
            ELSE [raised |-> "none",
                  hooks |-> [g EXCEPT
                     !.made = @ + 1,
                     !.lock_connections = DictSet(@, a.table, h.made + 1),
                     !.active_locks = DictSet(@, a.table, h.made + 1),
                     !.lock_tasks = @ \cup
                         {[id |-> h.made + 1, table |-> a.table,
                           duration |-> DurationOr(a, 30),
                           until |-> IF \E t \in h.lock_tasks : t.table = a.table
                                     THEN None
                                     ELSE sc_now + DurationOr(a, 30)]}]]
       ELSE IF a.type = "add_latency"
       THEN LET latency_ms == IF a.latency_ms # 0 THEN a.latency_ms ELSE 1000
                end_time == sc_now + DurationOr(a, 60)
            IN [raised |-> "none",
                hooks |-> [g EXCEPT !.latency_ms = latency_ms,
                                    !.latency_end_time = end_time,
                                    !.override = <<latency_ms, end_time>>,
                                    !.removers = Append(@, end_time)]]
       ELSE [raised |-> "none", hooks |-> g]

\* an except clause that only catches the hooks' own error
Caught_HookErrorOnly(exc) == exc = "ChaosHookError"

\* _execute_trigger, line 353: except Exception
Caught(exc) == exc \in {"ChaosHookError", "PostgresError"}

\* scenario.max_total_chaos_events (no method of the scheduler reads it)
TotalLimits == {1}

\* ChaosScheduler.__init__
SchedInit ==
    /\ sc_scenario \in Scenarios
    /\ sc_limit \in TotalLimits
    /\ sc_hooks = NoHooks
    /\ sc_running = FALSE
    /\ sc_state = [exists |-> FALSE]
    /\ sc_timer = [pc |-> "none", idx |-> 0, wake_at |-> 0, elapsed |-> 0]
    /\ sc_callers = [c \in Callers |-> IdleCaller]
    /\ sc_turn = "none"
    /\ sc_now = 0
    /\ sc_ghost = NoGhost

\* a max_triggers check that never stops a trigger
MaxTriggersReached_Never(i) == FALSE

\* if fire_count >= trigger.max_triggers
MaxTriggersReached(i) ==
    sc_state.trigger_fire_counts[TriggerKey(i)] >= sc_scenario[i].max_triggers

\* _check_event_trigger: does trigger i fire for event e
EventTriggerFires(i, e) ==
    LET t  == sc_scenario[i]
        fc == sc_state.trigger_fire_counts[TriggerKey(i)]
        last_fired == sc_state.trigger_last_fired[TriggerKey(i)]
    IN /\ InfixOf(UpperSeq(t.event_type), UpperSeq(e.event_type))
       /\ (t.parsed_type # "" => Upper(t.parsed_type) = Upper(e.sql_type))
       /\ (t.table_pattern # <<>> =>
             \E k \in 1..Len(e.tables) :
                InfixOf(LowerSeq(t.table_pattern), LowerSeq(e.tables[k])))
       /\ ~(t.occurrence.kind = "first" /\ fc > 0)
       /\ ~(t.occurrence.kind = "int" /\ fc < t.occurrence.n - 1)
       /\ ~MaxTriggersReached(i)
       /\ ~(t.cooldown_seconds > 0 /\ last_fired # None
              /\ sc_now - last_fired < t.cooldown_seconds)

\* _check_count_trigger: does trigger i fire for event e
CountTriggerFires(i, e) ==
    /\ sc_state.event_counts[<<sc_scenario[i].event_type, e.sql_type>>]
          >= sc_scenario[i].count
    /\ ~MaxTriggersReached(i)

\* _time_check_loop, lines 285-310: does trigger i fire with jitter j
TimeTriggerFires(i, j) ==
    /\ sc_scenario[i].enabled /\ sc_scenario[i].trigger_type = "time"
    /\ ~MaxTriggersReached(i)
    /\ sc_timer.elapsed >= sc_scenario[i].elapsed_seconds + j
    /\ sc_state.trigger_fire_counts[TriggerKey(i)] = 0

\* _execute_trigger, lines 325-329, on ChaosState st: the counters move
\* before hooks.execute is awaited
ExecuteTrigger(i, st) ==
    /\ sc_state' = [st EXCEPT !.trigger_fire_counts[TriggerKey(i)] = @ + 1,
                              !.trigger_last_fired[TriggerKey(i)] = sc_now,
                              !.total_chaos_events = @ + 1]
    /\ sc_ghost' = [sc_ghost EXCEPT !.fired[i] = @ + 1]

\* start(run_id), the first start of this scheduler: the scheduler is
\* followed through the one run it is attached to
SchedStart ==
    /\ sc_turn = "none"
    /\ ~sc_running
    /\ sc_state' = NewChaosState(sc_now)
    /\ sc_running' = TRUE
    /\ sc_timer' = [pc |-> "sleep", idx |-> 0, wake_at |-> sc_now + 1, elapsed |-> 0]
    /\ ~sc_state.exists
    /\ sc_ghost' = [sc_ghost EXCEPT !.fired = <<0, 0>>]
    /\ UNCHANGED <<sc_scenario, sc_limit, sc_hooks, sc_callers, sc_turn, sc_now>>
    /\ Frame("sched")

\* a start(run_id) that makes a new ChaosState and a new time-check task
\* although the scheduler is running
SchedStartAgain_Restart ==
    /\ sc_turn = "none"
    /\ sc_running
    /\ sc_state' = NewChaosState(sc_now)
    /\ sc_timer' = [pc |-> "sleep", idx |-> 0, wake_at |-> sc_now + 1, elapsed |-> 0]
    /\ UNCHANGED <<sc_scenario, sc_limit, sc_hooks, sc_running, sc_callers, sc_turn,
                   sc_now, sc_ghost>>
    /\ Frame("sched")

\* start(run_id) on a running scheduler returns at once
SchedStartAgain ==
    /\ sc_turn = "none"
    /\ sc_running
    /\ UNCHANGED schedVars
    /\ Frame("sched")

\* stop(): the time-check task is cancelled and ends at its await
SchedStop ==
    /\ sc_turn = "none"
    /\ sc_running' = FALSE
    /\ sc_timer' = [sc_timer EXCEPT !.pc = IF @ = "none" THEN "none" ELSE "ended"]
    /\ UNCHANGED <<sc_scenario, sc_limit, sc_hooks, sc_state, sc_callers, sc_turn, sc_now, sc_ghost>>
    /\ Frame("sched")

\* on_event, lines 148-169: up to the loop over the triggers (a new call is
\* coroutine c1 unless c1 is still inside on_event)
OnEvent ==
    \E c \in Callers, e \in SchedEvents :
       /\ sc_turn = "none"
       /\ sc_callers[c].pc = "idle"
       /\ (c = "c2" => sc_callers["c1"].pc # "idle")
       /\ sc_ghost.calls < MaxEvents
       /\ sc_ghost' = [sc_ghost EXCEPT !.calls = @ + 1]
       /\ IF ~sc_running \/ ~sc_state.exists
          THEN UNCHANGED <<sc_state, sc_callers, sc_turn>>
          ELSE /\ sc_state' = [sc_state EXCEPT
                                 !.event_counts[<<e.event_type, e.sql_type>>] = @ + 1]
               /\ sc_callers' = [sc_callers EXCEPT ![c] =
                                   [pc |-> "check", idx |-> 1, event |-> e]]
               /\ sc_turn' = c
       /\ UNCHANGED <<sc_scenario, sc_limit, sc_hooks, sc_running, sc_timer, sc_now>>
       /\ Frame("sched")

\* on_event, lines 171-184: the next trigger of the loop, or the return
CheckTrigger ==
    \E c \in Callers :
       LET i == sc_callers[c].idx
           e == sc_callers[c].event
           skip == /\ sc_callers' = [sc_callers EXCEPT ![c].idx = i + 1]
                   /\ UNCHANGED <<sc_state, sc_ghost, sc_turn>>
           suspend == /\ sc_callers' = [sc_callers EXCEPT ![c].pc = "hook"]
                      /\ sc_turn' = "none"
       IN /\ sc_turn = c /\ sc_callers[c].pc = "check"
          /\ IF i > Len(sc_scenario)
             THEN /\ sc_callers' = [sc_callers EXCEPT ![c] = IdleCaller]
                  /\ sc_turn' = "none"
                  /\ UNCHANGED <<sc_state, sc_ghost>>
             ELSE IF ~sc_scenario[i].enabled THEN skip
             ELSE IF sc_scenario[i].trigger_type = "event"
             THEN IF EventTriggerFires(i, e)
                  THEN ExecuteTrigger(i, sc_state) /\ suspend
                  ELSE skip
             ELSE IF sc_scenario[i].trigger_type = "count"
             THEN IF CountTriggerFires(i, e)
                  THEN /\ ExecuteTrigger(i,
                            IF sc_scenario[i].reset_after_trigger
                            THEN [sc_state EXCEPT
                                    !.event_counts[<<sc_scenario[i].event_type,
                                                     e.sql_type>>] = 0]
                            ELSE sc_state)
                       /\ suspend
                  ELSE skip
             ELSE skip
          /\ UNCHANGED <<sc_scenario, sc_limit, sc_hooks, sc_running, sc_timer, sc_now>>
          /\ Frame("sched")

\* _time_check_loop: asyncio.sleep(1) returns and elapsed is computed, once
\* for the whole pass over the triggers
TimerWake ==
    /\ sc_turn = "none"
    /\ sc_timer.pc = "sleep" /\ sc_now >= sc_timer.wake_at
    /\ sc_timer' = [sc_timer EXCEPT !.pc = "check", !.idx = 1,
                                    !.elapsed = sc_now - sc_state.started_at]
    /\ sc_turn' = "timer"
    /\ UNCHANGED <<sc_scenario, sc_limit, sc_hooks, sc_running, sc_state, sc_callers, sc_now, sc_ghost>>
    /\ Frame("sched")

\* _time_check_loop: the next trigger of its for loop, or the while test
TimerCheck ==
    LET i == sc_timer.idx
    IN /\ sc_turn = "timer" /\ sc_timer.pc = "check"
       /\ IF i > Len(sc_scenario)
          THEN /\ sc_timer' = IF sc_running
                              THEN [pc |-> "sleep", idx |-> 0, wake_at |-> sc_now + 1, elapsed |-> 0]
                              ELSE [sc_timer EXCEPT !.pc = "ended"]
               /\ sc_turn' = "none"
               /\ UNCHANGED <<sc_state, sc_ghost>>
          ELSE \E j \in 0..sc_scenario[i].jitter_seconds :
                 IF TimeTriggerFires(i, j)
                 THEN /\ ExecuteTrigger(i, sc_state)
                      /\ sc_timer' = [sc_timer EXCEPT !.pc = "hook"]
                      /\ sc_turn' = "none"
                 ELSE /\ sc_timer' = [sc_timer EXCEPT !.idx = i + 1]
                      /\ UNCHANGED <<sc_state, sc_ghost, sc_turn>>
       /\ UNCHANGED <<sc_scenario, sc_limit, sc_hooks, sc_running, sc_callers, sc_now>>
       /\ Frame("sched")

\* _execute_trigger, lines 341-358, for the outcome out of hooks.execute:
\* a result is handed to the event callback; an exception that the except
\* clause catches is logged and nothing else is done with it
AfterExecute(out) ==
    /\ sc_hooks' = out.hooks
    /\ sc_ghost' = IF out.raised = "none" THEN sc_ghost
                   ELSE IF Caught(out.raised)
                   THEN [sc_ghost EXCEPT !.failures = @ + 1]
                   ELSE [sc_ghost EXCEPT !.failures = @ + 1, !.escaped = TRUE]

\* hooks.execute ends for a coroutine suspended in it: _execute_trigger
\* returns the action and the caller's loop goes on with the next trigger
\* (how long the awaits of execute take is left open); an exception that
\* leaves _execute_trigger ends on_event, and ends the time-check loop's
\* pass over the triggers
HookReturn ==
    /\ sc_turn = "none"
    /\ \E lib \in {"ok", "error"} :
         \/ \E c \in Callers :
              LET i == sc_callers[c].idx
                  out == HooksExecute(sc_hooks, sc_scenario[i].action,
                            IF sc_scenario[i].trigger_type = "event"
                            THEN EventContext(sc_callers[c].event) ELSE EmptyContext,
                            lib)
              IN /\ sc_callers[c].pc = "hook"
                 /\ AfterExecute(out)
                 /\ IF out.raised = "none" \/ Caught(out.raised)
                    THEN /\ sc_callers' = [sc_callers EXCEPT ![c].pc = "check",
                                                             ![c].idx = @ + 1]
                         /\ sc_turn' = c
                    ELSE /\ sc_callers' = [sc_callers EXCEPT ![c] = IdleCaller]
                         /\ sc_turn' = "none"
                 /\ UNCHANGED sc_timer
         \/ LET out == HooksExecute(sc_hooks, sc_scenario[sc_timer.idx].action,
                                    EmptyContext, lib)
            IN /\ sc_timer.pc = "hook"
               /\ AfterExecute(out)
               /\ IF out.raised = "none" \/ Caught(out.raised)
                  THEN /\ sc_timer' = [sc_timer EXCEPT !.pc = "check", !.idx = @ + 1]
                       /\ sc_turn' = "timer"
                  ELSE /\ sc_timer' = IF sc_running
                                      THEN [pc |-> "sleep", idx |-> 0,
                                            wake_at |-> sc_now + 1, elapsed |-> 0]
                                      ELSE [sc_timer EXCEPT !.pc = "ended"]
                       /\ sc_turn' = "none"
               /\ UNCHANGED sc_callers
    /\ UNCHANGED <<sc_scenario, sc_limit, sc_running, sc_state, sc_now>>
    /\ Frame("sched")

\* hold_lock's finally clause run by task t on the hooks h, lines 251-256:
\* the connection found under the task's key is popped and released, then
\* the key's entry of _active_locks is deleted; rel is what pool.release
\* does, and when it raises the del is not reached. The table's lock goes
\* to the oldest task waiting for it, whose sleep(duration) begins
HoldLockFinally(h, t, rel) ==
    LET conns == { x \in h.lock_connections : x.key = t.table }
        rest == h.lock_tasks \ {t}
        next == { w \in Waiting(rest, t.table) :
                    /\ t.until # None
                    /\ \A v \in Waiting(rest, t.table) : w.id <= v.id }
    IN [h EXCEPT
          !.lock_tasks = (rest \ next)
                            \cup { [w EXCEPT !.until = sc_now + w.duration] : w \in next },
          !.lock_connections = @ \ conns,
          !.released = IF rel = "ok"
                       THEN @ \cup { [conn |-> x.value, by |-> t.id] : x \in conns }
                       ELSE @,
          !.active_locks = IF rel = "error" THEN @
                           ELSE { x \in @ : x.key # t.table }]

\* the connection that task t would release is the one another hold_lock
\* task is working on: releasing it may raise
InUseByOther(h, t) ==
    \E x \in h.lock_connections :
       /\ x.key = t.table /\ x.value # t.id
       /\ \E u \in h.lock_tasks : u.id = x.value

\* a hold_lock task ends, because its sleep(duration) is over or because
\* LOCK TABLE or the transaction raised (lib), and runs its finally clause;
\* a remove_latency task whose sleep(duration) is over resets the latency
HookTaskEnds ==
    /\ sc_turn = "none"
    /\ \/ \E t \in sc_hooks.lock_tasks, lib \in {"ok", "error"}, rel \in {"ok", "error"} :
             /\ IF lib = "ok" THEN t.until # None /\ sc_now >= t.until ELSE TRUE
             /\ rel = "error" => InUseByOther(sc_hooks, t)
             /\ sc_hooks' = HoldLockFinally(sc_hooks, t, rel)
       \/ \E k \in 1..Len(sc_hooks.removers) :
             /\ sc_now >= sc_hooks.removers[k]
             /\ sc_hooks' = [sc_hooks EXCEPT
                               !.removers = SubSeq(@, 1, k - 1) \o SubSeq(@, k + 1, Len(@)),
                               !.latency_ms = 0, !.latency_end_time = None]
    /\ UNCHANGED <<sc_scenario, sc_limit, sc_running, sc_state, sc_timer, sc_callers,
                   sc_turn, sc_now, sc_ghost>>
    /\ Frame("sched")

\* ChaosHooks.cleanup(): the tasks of _active_locks are cancelled and awaited
\* one after the other (each runs its finally clause), the connections
\* left in _lock_connections are released, both dicts are cleared and the
\* latency is reset
RECURSIVE CancelAll(_, _)
CancelAll(h, keys) ==
    IF keys = {} THEN h
    ELSE LET key == CHOOSE k \in keys : TRUE
             ts == { t \in h.lock_tasks :
                       \E x \in h.active_locks : x.key = key /\ x.value = t.id }
         IN CancelAll(IF ts = {} THEN h
                      ELSE HoldLockFinally(h, CHOOSE t \in ts : TRUE, "ok"),
                      keys \ {key})

HooksCleanup ==
    /\ sc_turn = "none"
    /\ LET h == CancelAll(sc_hooks, { x.key : x \in sc_hooks.active_locks })
       IN sc_hooks' = [h EXCEPT
             !.active_locks = {},
             !.released = IF h.pool
                          THEN @ \cup { [conn |-> x.value, by |-> 0] :
                                           x \in h.lock_connections }
                          ELSE @,
             !.lock_connections = {},
             !.latency_ms = 0, !.latency_end_time = None, !.override = <<>>]
    /\ UNCHANGED <<sc_scenario, sc_limit, sc_running, sc_state, sc_timer, sc_callers,
                   sc_turn, sc_now, sc_ghost>>
    /\ Frame("sched")

\* get_current_latency() on the hooks h: the latency the proxy is given
CurrentLatency(h) ==
    IF h.latency_end_time = None \/ sc_now > h.latency_end_time THEN 0
    ELSE h.latency_ms

\* get_current_latency() called by the proxy: an override past its end time
\* is reset by the call
GetCurrentLatency ==
    /\ sc_turn = "none"
    /\ sc_hooks' = IF sc_hooks.latency_end_time # None
                      /\ sc_now > sc_hooks.latency_end_time
                   THEN [sc_hooks EXCEPT !.latency_ms = 0, !.latency_end_time = None]
                   ELSE sc_hooks
    /\ UNCHANGED <<sc_scenario, sc_limit, sc_running, sc_state, sc_timer, sc_callers,
                   sc_turn, sc_now, sc_ghost>>
    /\ Frame("sched")

\* a second of wall clock passes
SchedTick ==
    /\ sc_turn = "none"
    /\ sc_now < MaxSchedClock
    /\ sc_now' = sc_now + 1
    /\ UNCHANGED <<sc_scenario, sc_limit, sc_hooks, sc_running, sc_state, sc_timer, sc_callers, sc_turn,
                   sc_ghost>>
    /\ Frame("sched")

SchedNext ==
    \/ SchedStart \/ SchedStartAgain \/ SchedStop \/ OnEvent \/ CheckTrigger
    \/ TimerWake \/ TimerCheck \/ HookReturn \/ SchedTick

\* ---- the scheduler with hooks that lock tables and add latency ---------

LockAction ==
    [TimeoutAction EXCEPT !.type = "lock_table", !.table = <<Template>>,
                          !.new_name = <<"bak", Template>>,
                          !.duration_seconds = 1, !.delay_seconds = 0]

LatencyAction ==
    [TimeoutAction EXCEPT !.type = "add_latency", !.duration_seconds = 1,
                          !.delay_seconds = 0]

\* triggers whose actions start tasks in the hooks
LockOnDelete ==
    [NoTrigger EXCEPT !.occurrence = [kind |-> "every", n |-> 0], !.max_triggers = 2,
                      !.action = LockAction]

LockOrders ==
    [LockOnDelete EXCEPT !.action = [LockAction EXCEPT !.table = <<"orders">>]]

LockAfter ==
    [NoTrigger EXCEPT !.trigger_type = "time", !.elapsed_seconds = 1,
                      !.action = [LockAction EXCEPT !.table = <<"orders">>]]

LatencyOnDelete ==
    [NoTrigger EXCEPT !.occurrence = [kind |-> "every", n |-> 0], !.max_triggers = 2,
                      !.action = LatencyAction]

LatencyAfter ==
    [NoTrigger EXCEPT !.trigger_type = "time", !.elapsed_seconds = 1,
                      !.action = LatencyAction]

ChaosScenarios ==
    { <<LockOnDelete>>, <<LockOrders>>, <<LockAfter>>, <<LockOnDelete, LatencyAfter>>,
      <<LockOrders, LatencyOnDelete>>, <<LatencyOnDelete, LockAfter>> }

\* ChaosScheduler.__init__ with ChaosHooks on which connect() was or was not
\* called
ChaosInit ==
    /\ sc_scenario \in ChaosScenarios
    /\ sc_limit \in TotalLimits
    /\ sc_hooks \in { [NoHooks EXCEPT !.pool = b] : b \in BOOLEAN }
    /\ sc_running = FALSE
    /\ sc_state = [exists |-> FALSE]
    /\ sc_timer = [pc |-> "none", idx |-> 0, wake_at |-> 0, elapsed |-> 0]
    /\ sc_callers = [c \in Callers |-> IdleCaller]
    /\ sc_turn = "none"
    /\ sc_now = 0
    /\ sc_ghost = NoGhost

ChaosNext ==
    \/ SchedStart \/ SchedStartAgain \/ SchedStop \/ OnEvent \/ CheckTrigger
    \/ TimerWake \/ TimerCheck \/ HookReturn \/ SchedTick \/ HookTaskEnds

\* ---- ChaosHooks driven by its own callers --------------------------------

\* the actions given to execute
HookActions ==
    { [LockAction EXCEPT !.table = <<"orders">>],
      [LockAction EXCEPT !.table = <<"users">>],
      LatencyAction,
      [LatencyAction EXCEPT !.latency_ms = 500, !.duration_seconds = 2] }

\* ChaosHooks.__init__, with or without connect()
HooksInit ==
    /\ sc_hooks \in { [NoHooks EXCEPT !.pool = b] : b \in BOOLEAN }
    /\ sc_scenario = <<>>
    /\ sc_limit = 0
    /\ sc_running = FALSE
    /\ sc_state = [exists |-> FALSE]
    /\ sc_timer = [pc |-> "none", idx |-> 0, wake_at |-> 0, elapsed |-> 0]
    /\ sc_callers = [c \in Callers |-> IdleCaller]
    /\ sc_turn = "none"
    /\ sc_now = 0
    /\ sc_ghost = NoGhost

\* execute(action, context) called and run to its return
HooksCall ==
    \E action \in HookActions, lib \in {"ok", "error"} :
       /\ sc_hooks.calls < MaxHookCalls
       /\ sc_hooks' = [HooksExecute(sc_hooks, action, EmptyContext, lib).hooks
                         EXCEPT !.calls = @ + 1]
       /\ UNCHANGED <<sc_scenario, sc_limit, sc_running, sc_state, sc_timer,
                      sc_callers, sc_turn, sc_now, sc_ghost>>
       /\ Frame("sched")

HooksNext ==
    \/ HooksCall \/ HookTaskEnds \/ HooksCleanup \/ GetCurrentLatency \/ SchedTick

\* ---- claims about the chaos scheduler -----------------------------------

\* C4: a trigger whose max_triggers is k fires at most k times during a run
\* (since start() made the run's ChaosState), under any interleaving of
\* on_event calls and time-check ticks.
C4_MaxTriggersBoundsFires ==
    \A i \in 1..Len(sc_scenario) : sc_ghost.fired[i] <= sc_scenario[i].max_triggers

\* C4 witness: a trigger has fired max_triggers = 2 times, a further on_event
\* call is being processed while another caller is suspended in a hook
C4_Witness ==
    /\ \E i \in 1..Len(sc_scenario) :
          sc_scenario[i].max_triggers = 2 /\ sc_ghost.fired[i] = 2
    /\ sc_ghost.calls > 2
    /\ \E c, d \in Callers : sc_callers[c].pc = "hook" /\ sc_callers[d].pc = "check"

\* C21: total_chaos_events never exceeds scenario.max_total_chaos_events:
\* once that many chaos actions have fired in a run no trigger fires again.
C21_TotalWithinScenarioLimit ==
    sc_state.exists => sc_state.total_chaos_events <= sc_limit

\* the events of this run so far that meet trigger i's condition
\* (event_type substring, parsed_type, table_pattern)
ConditionMet(i, e) ==
    /\ InfixOf(UpperSeq(sc_scenario[i].event_type), UpperSeq(e.event_type))
    /\ (sc_scenario[i].parsed_type # "" =>
          Upper(sc_scenario[i].parsed_type) = Upper(e.sql_type))
    /\ (sc_scenario[i].table_pattern # <<>> =>
          \E k \in 1..Len(e.tables) :
             InfixOf(LowerSeq(sc_scenario[i].table_pattern), LowerSeq(e.tables[k])))

\* an enabled EVENT trigger with occurrence 'first' that may fire at all
FirstTriggers ==
    { i \in 1..Len(sc_scenario) :
        /\ sc_scenario[i].enabled /\ sc_scenario[i].trigger_type = "event"
        /\ sc_scenario[i].occurrence.kind = "first"
        /\ sc_scenario[i].max_triggers >= 1 }

\* the on_event calls that have gone past trigger i with an event that
\* meets its condition
PastTrigger(i) ==
    { c \in Callers :
        /\ sc_callers[c].pc \in {"check", "hook"}
        /\ ConditionMet(i, sc_callers[c].event)
        /\ IF sc_callers[c].pc = "hook" THEN sc_callers[c].idx >= i
           ELSE sc_callers[c].idx > i }

\* C22: an EVENT trigger with occurrence 'first' fires on the first event
\* that meets its condition and on no later one: once an on_event call with
\* such an event is past the trigger, the trigger has fired, and its fire
\* count (the scheduler's trigger_fire_counts entry) is exactly 1; before
\* any such event it has not fired.
C22_FirstFiresExactlyOnce ==
    sc_state.exists =>
      \A i \in FirstTriggers :
         /\ sc_ghost.fired[i] <= 1
         /\ (PastTrigger(i) # {} =>
               sc_ghost.fired[i] = 1
               /\ sc_state.trigger_fire_counts[TriggerKey(i)] = 1)
         /\ (sc_ghost.fired[i] = 1 =>
               \E e \in SchedEvents :
                  ConditionMet(i, e)
                  /\ sc_state.event_counts[<<e.event_type, e.sql_type>>] > 0)

\* C23: the action handed to the hook handler for a trigger fired by an SQL
\* event has '{event.tables[0]}' in table, column and new_name replaced by
\* the first table of the triggering event.
C23_TemplateReplacedByFirstTable ==
    \A h \in sc_hooks.handed :
       ("tables" \in h.context.keys /\ h.context.tables # <<>>) =>
          /\ h.given.table = Replace(h.action.table, Template, h.context.tables[1])
          /\ h.given.column = Replace(h.action.column, Template, h.context.tables[1])
          /\ h.given.new_name =
                Replace(h.action.new_name, Template, h.context.tables[1])

\* C24: after stop() has returned no table lock taken by a LOCK_TABLE action
\* of this scheduler is still held and no latency remover is still pending.
C24_StopCancelsHookTasks ==
    (sc_state.exists /\ ~sc_running) =>
       sc_hooks.lock_tasks = {} /\ sc_hooks.removers = <<>>

\* C25: start(run_id) on a running scheduler is a no-op: the ChaosState is
\* unchanged and no second time-check task is created.
C25_StartWhenRunningIsNoOp ==
    [][SchedStartAgain => UNCHANGED <<sc_state, sc_timer, sc_running, sc_hooks>>]_vars

\* C25 witness: a running scheduler whose ChaosState has counted events and
\* fires and whose time-check task sleeps: a second start() would reset them
C25_Witness ==
    /\ sc_running /\ sc_state.exists /\ sc_timer.pc = "sleep"
    /\ sc_state.total_chaos_events > 0 /\ sc_state.started_at < sc_now
    /\ ENABLED SchedStartAgain

\* C26: if hooks.execute raises for a fired trigger the exception does not
\* leave _execute_trigger: the on_event call goes on with the next trigger
\* (the time-check loop with its next trigger), and later events are taken.
C26_HookFailureDoesNotAbort ==
    /\ [](~sc_ghost.escaped)
    /\ [][sc_ghost'.failures > sc_ghost.failures =>
            \/ \E c \in Callers :
                  /\ sc_callers[c].pc = "hook" /\ sc_callers'[c].pc = "check"
                  /\ sc_callers'[c].idx = sc_callers[c].idx + 1
                  /\ sc_callers'[c].event = sc_callers[c].event
                  /\ sc_turn' = c
            \/ /\ sc_timer.pc = "hook" /\ sc_timer'.pc = "check"
               /\ sc_timer'.idx = sc_timer.idx + 1 /\ sc_turn' = "timer"]_vars
    /\ []((sc_ghost.failures > 0 /\ sc_turn = "none" /\ sc_running
             /\ sc_ghost.calls < MaxEvents /\ sc_callers["c1"].pc = "idle")
            => ENABLED OnEvent)

\* C26 witness: a hook has raised, and after it a later trigger of the same
\* event has fired and a later event is being processed
C26_Witness ==
    /\ sc_ghost.failures > 0
    /\ Len(sc_scenario) = 2 /\ sc_ghost.fired[1] > 0 /\ sc_ghost.fired[2] > 0
    /\ sc_ghost.calls > 1
    /\ \E c \in Callers : sc_callers[c].pc = "check"

\* C27: a hook failure is recorded as a chaos event with a failure marker:
\* for every firing whose hooks.execute raised, the event callback has been
\* invoked with a failure indication.
C27_FailureReachesCallback ==
    sc_ghost.failure_callbacks = sc_ghost.failures

\* C33: an EVENT trigger whose occurrence is an integer N fires on a matching
\* event exactly when its fire_count equals N-1: every fire of such a trigger
\* happens at fire_count N-1, at no other fire_count
C33_IntegerOccurrenceFiresAtNMinus1 ==
    [][\A i \in 1..Len(sc_scenario) :
          (/\ sc_scenario[i].trigger_type = "event"
           /\ sc_scenario[i].occurrence.kind = "int"
           /\ sc_ghost'.fired[i] = sc_ghost.fired[i] + 1)
          => sc_state.trigger_fire_counts[TriggerKey(i)]
                = sc_scenario[i].occurrence.n - 1]_vars

\* C34: two consecutive fires of a trigger with cooldown_seconds = c > 0 are
\* at least c seconds apart, whatever its trigger_type (the trigger is the
\* only one of its key, so that trigger_last_fired is its own last fire)
C34_CooldownBetweenFires ==
    [][\A i \in 1..Len(sc_scenario) :
          (/\ sc_scenario[i].cooldown_seconds > 0
           /\ \A j \in 1..Len(sc_scenario) : j # i => TriggerKey(j) # TriggerKey(i)
           /\ sc_ghost'.fired[i] = sc_ghost.fired[i] + 1
           /\ sc_state.trigger_last_fired[TriggerKey(i)] # None)
          => sc_now - sc_state.trigger_last_fired[TriggerKey(i)]
                >= sc_scenario[i].cooldown_seconds]_vars

\* the enabled TIME triggers with max_triggers >= 1
TimeTriggers ==
    { i \in 1..Len(sc_scenario) :
        /\ sc_scenario[i].enabled /\ sc_scenario[i].trigger_type = "time"
        /\ sc_scenario[i].max_triggers >= 1 }

\* C35: an enabled TIME trigger with max_triggers >= 1 never fires before
\* elapsed_seconds have passed since start(); it fires exactly once if the
\* scheduler keeps running past elapsed_seconds + jitter_seconds (it has
\* fired when a pass of the time-check loop that began at or after that time
\* ends, and it never fires twice); after stop() the time-check loop has
\* ended and the trigger does not fire again
C35_TimeTriggerFiresOnce ==
    /\ [](\A i \in TimeTriggers : sc_ghost.fired[i] <= 1)
    /\ [](sc_state.exists /\ ~sc_running => sc_timer.pc = "ended")
    /\ [][\A i \in TimeTriggers :
            /\ sc_ghost'.fired[i] # sc_ghost.fired[i] =>
                  /\ sc_running
                  /\ sc_now - sc_state.started_at >= sc_scenario[i].elapsed_seconds
            /\ (/\ sc_timer.pc = "check" /\ sc_timer.idx > Len(sc_scenario)
                /\ sc_timer'.pc = "sleep"
                /\ sc_timer.elapsed >= sc_scenario[i].elapsed_seconds
                                          + sc_scenario[i].jitter_seconds)
               => sc_ghost.fired[i] = 1]_vars

\* the hold_lock tasks that have ended: task k held connection k
FinishedLocks ==
    { c \in 1..sc_hooks.made : \A t \in sc_hooks.lock_tasks : t.id # c }

\* C36: every connection acquired by a LOCK_TABLE action is released to the
\* pool exactly once, by its holder task or by cleanup() and by no other
\* task, also when two LOCK_TABLE actions name the same table; once the
\* holder task has ended its connection has been released and neither
\* _lock_connections nor _active_locks has an entry for it
C36_LockConnectionReleasedOnce ==
    /\ \A r \in sc_hooks.released : r.by \in {r.conn, 0}
    /\ \A c \in FinishedLocks :
          /\ Cardinality({ r \in sc_hooks.released : r.conn = c }) = 1
          /\ \A x \in sc_hooks.lock_connections \cup sc_hooks.active_locks :
                x.value # c

\* C37: an ADD_LATENCY override that no later ADD_LATENCY and no cleanup()
\* has replaced is what get_current_latency() returns before its end time,
\* and get_current_latency() returns 0 after it; no override, no latency
C37_LatencyHeldForDuration ==
    IF sc_hooks.override = <<>> THEN CurrentLatency(sc_hooks) = 0
    ELSE /\ sc_now < sc_hooks.override[2] =>
               CurrentLatency(sc_hooks) = sc_hooks.override[1]
         /\ sc_now > sc_hooks.override[2] => CurrentLatency(sc_hooks) = 0

\* ========================================================================
\* DB PROXY CONNECTION
\* ========================================================================
\* Bytes are numbers 0..255; text is the sequence of its character codes.
QUERY == 81

Min(a, b) == IF a < b THEN a ELSE b

\* struct.pack("!I", n) and struct.unpack("!I", b)
PackU32(n) == <<(n \div 16777216) % 256, (n \div 65536) % 256, (n \div 256) % 256, n % 256>>

UnpackU32(b) == ((b[1] * 256 + b[2]) * 256 + b[3]) * 256 + b[4]

\* str.rstrip('\x00')
RECURSIVE RStripNul(_)
RStripNul(b) ==
    IF b # <<>> /\ b[Len(b)] = 0 THEN RStripNul(SubSeq(b, 1, Len(b) - 1)) ELSE b

\* PostgresProtocol.parse_query_message: None, or the SQL text
ParseQueryMessage(data) ==
    IF Len(data) < 5 THEN [none |-> TRUE, sql |-> <<>>]
    ELSE IF data[1] # QUERY THEN [none |-> TRUE, sql |-> <<>>]
    ELSE LET length == UnpackU32(SubSeq(data, 2, 5))
         IN [none |-> FALSE,
             sql |-> RStripNul(SubSeq(data, 6, Min(4 + length - 1, Len(data))))]

\* PostgresProtocol.create_error_response with the default severity "ERROR"
\* and code "42000"
CreateErrorResponse(message) ==
    LET body == <<83, 69, 82, 82, 79, 82, 0>> \o <<67, 52, 50, 48, 48, 48, 0>>
                  \o <<77>> \o message \o <<0>> \o <<0>>
    IN <<69>> \o PackU32(Len(body) + 4) \o body

\* a ReadyForQuery whose status byte is missing
CreateReadyForQuery_NoStatus(status) == <<90>> \o PackU32(5)

\* PostgresProtocol.create_ready_for_query
CreateReadyForQuery(status) == <<90>> \o PackU32(5) \o <<status>>

\* f"Query blocked: {violation_reason or 'Policy violation'}"
ErrorMsg(violation_reason) ==
    <<81, 117, 101, 114, 121, 32, 98, 108, 111, 99, 107, 101, 100, 58, 32>>
      \o (IF violation_reason # <<>> THEN violation_reason
          ELSE <<80, 111, 108, 105, 99, 121, 32, 118, 105, 111, 108, 97, 116, 105, 111, 110>>)

\* _get_event_type
GetEventType(action) ==
    IF action = "block" THEN "sql_blocked"
    ELSE IF action = "allow_flagged" THEN "sql_flagged"
    ELSE "sql_allowed"

\* The messages a client sends, as the frontend writes them: a Query with
\* SQL "A", a Query with empty SQL, a Terminate
ClientMessages ==
    { <<QUERY>> \o PackU32(4 + 1 + 1) \o <<65, 0>>,
      <<QUERY>> \o PackU32(4 + 1) \o <<0>>,
      <<88>> \o PackU32(4) }

\* what a client sends on a connection: any first message, then queries
ClientStreams(n) ==
    { [i \in 1..n |-> IF i = 1 THEN first ELSE <<QUERY>> \o PackU32(4 + 1 + 1) \o <<65, 0>>] :
        first \in ClientMessages }

\* the bytes of message number m, each marked with m
Marked(m, bytes) == [i \in 1..Len(bytes) |-> [m |-> m, v |-> bytes[i]]]

RECURSIVE StreamOf(_, _)
StreamOf(msgs, m) ==
    IF m > Len(msgs) THEN <<>> ELSE Marked(m, msgs[m]) \o StreamOf(msgs, m + 1)

Values(data) == [i \in 1..Len(data) |-> data[i].v]

\* client_reader.read(65536) returns the bytes that have arrived, whatever
\* the message boundaries: the stream cut after the positions in cuts
RECURSIVE ReadsOf(_, _, _)
ReadsOf(stream, cuts, from) ==
    IF from > Len(stream) THEN <<>>
    ELSE LET next == { c \in cuts : c >= from /\ c < Len(stream) }
             upto == IF next = {} THEN Len(stream)
                     ELSE CHOOSE c \in next : \A d \in next : c <= d
         IN <<SubSeq(stream, from, upto)>> \o ReadsOf(stream, cuts, upto + 1)

\* where TCP may cut the stream: inside the first message (before and after
\* its fifth byte) and between the first two messages
CutsOf(msgs) == SUBSET { c \in {3, 6, Len(msgs[1])} : c < Len(StreamOf(msgs, 1)) }

\* DBProxyConnection.__init__, and handle() not yet run
NewConnection ==
    [pc |-> "connect", closed |-> FALSE, client_writer |-> "open",
     server_writer |-> "none", sql_count |-> 0]

NoC2S == [pc |-> "none", data |-> <<>>, action |-> "allow", reason |-> <<>>, end |-> ""]

ProxyInit ==
    /\ px_cfg \in [evaluator : BOOLEAN, callback : BOOLEAN]
    /\ \E n \in 1..MaxMessages : \E msgs \in ClientStreams(n) :
         \E cuts \in CutsOf(msgs) :
            \E left \in 0..MaxServerChunks :
               px_env = [msgs |-> msgs, pending |-> ReadsOf(StreamOf(msgs, 1), cuts, 1),
                         client |-> "open", server_left |-> left, server |-> "open"]
    /\ px_conn = NewConnection
    /\ px_c2s = NoC2S
    /\ px_s2c = [pc |-> "none", end |-> ""]
    /\ px_log = <<>>

\* an entry of the history: a policy decision or an evaluator raise for the
\* read that begins message m, an event handed to event_callback, a write
LogEntry(k, m, what, data) == [k |-> k, m |-> m, what |-> what, data |-> data]

\* the client-to-server task is at an await (or not running): only then do
\* the other task and the peers act
C2SParked == px_c2s.pc \in {"none", "read", "callback", "block_drain", "sleep", "drain", "ended"}

\* handle, lines 200-215: open_connection, then gather starts both tasks
ConnectServer ==
    /\ px_conn.pc = "connect"
    /\ \E ok \in BOOLEAN :
         IF ok
         THEN /\ px_conn' = [px_conn EXCEPT !.pc = "gather", !.server_writer = "open"]
              /\ px_c2s' = [NoC2S EXCEPT !.pc = "read"]
              /\ px_s2c' = [pc |-> "read", end |-> ""]
         ELSE /\ px_conn' = [px_conn EXCEPT !.pc = "close"]
              /\ UNCHANGED <<px_c2s, px_s2c>>
    /\ UNCHANGED <<px_cfg, px_env, px_log>>
    /\ Frame("proxy")

\* a read that hands over the newest bytes received instead of the oldest
C2SRead_NewestFirst ==
    /\ px_conn.pc = "gather" /\ px_c2s.pc = "read"
    /\ IF px_env.client = "reset"
       THEN /\ px_c2s' = [px_c2s EXCEPT !.pc = "ended", !.end = "error"]
            /\ UNCHANGED px_env
       ELSE IF px_env.pending # <<>>
       THEN LET last == px_env.pending[Len(px_env.pending)] IN
            /\ px_c2s' = [px_c2s EXCEPT !.data = last,
                            !.pc = IF last[1].v = QUERY THEN "query" ELSE "latency"]
            /\ px_env' = [px_env EXCEPT !.pending = SubSeq(@, 1, Len(@) - 1)]
       ELSE /\ px_env.client = "eof"
            /\ px_c2s' = [px_c2s EXCEPT !.pc = "ended", !.end = "eof"]
            /\ UNCHANGED px_env
    /\ UNCHANGED <<px_cfg, px_conn, px_s2c, px_log>>
    /\ Frame("proxy")

\* _proxy_client_to_server, lines 231-237: client_reader.read returns data,
\* returns b"" at EOF, or raises
C2SRead ==
    /\ px_conn.pc = "gather" /\ px_c2s.pc = "read"
    /\ IF px_env.client = "reset"
       THEN /\ px_c2s' = [px_c2s EXCEPT !.pc = "ended", !.end = "error"]
            /\ UNCHANGED px_env
       ELSE IF px_env.pending # <<>>
       THEN /\ px_c2s' = [px_c2s EXCEPT !.data = Head(px_env.pending),
                            !.pc = IF Head(px_env.pending)[1].v = QUERY
                                   THEN "query" ELSE "latency"]
            /\ px_env' = [px_env EXCEPT !.pending = Tail(@)]
       ELSE /\ px_env.client = "eof"
            /\ px_c2s' = [px_c2s EXCEPT !.pc = "ended", !.end = "eof"]
            /\ UNCHANGED px_env
    /\ UNCHANGED <<px_cfg, px_conn, px_s2c, px_log>>
    /\ Frame("proxy")

\* _handle_query, lines 290-355: parse the packet, evaluate the policy,
\* build the SQLEvent and hand it to event_callback
HandleQuery ==
    /\ px_c2s.pc = "query"
    /\ LET parsed == ParseQueryMessage(Values(px_c2s.data))
           m == px_c2s.data[1].m
       IN IF parsed.none \/ parsed.sql = <<>>
          THEN /\ px_c2s' = [px_c2s EXCEPT !.pc = "latency"]
               /\ UNCHANGED <<px_conn, px_log>>
          ELSE /\ px_conn' = [px_conn EXCEPT !.sql_count = @ + 1]
               /\ \E outcome \in IF px_cfg.evaluator
                                 THEN {"allow", "allow_flagged", "block", "raise"}
                                 ELSE {"allow"} :
                  \E reason \in IF outcome = "block" THEN {<<>>, <<114>>} ELSE {<<>>} :
                    IF outcome = "raise"
                    THEN /\ px_log' = Append(px_log, LogEntry("raise", m, "", <<>>))
                         /\ px_c2s' = [px_c2s EXCEPT !.pc = "ended", !.end = "raise"]
                    ELSE /\ px_log' = px_log \o <<LogEntry("decision", m, outcome, <<>>)>>
                              \o (IF px_cfg.callback
                                  THEN <<LogEntry("event", m, GetEventType(outcome), <<>>)>>
                                  ELSE <<>>)
                         /\ px_c2s' = [px_c2s EXCEPT !.action = outcome, !.reason = reason,
                                         !.pc = IF px_cfg.callback THEN "callback"
                                                ELSE "decide"]
    /\ UNCHANGED <<px_cfg, px_env, px_s2c>>
    /\ Frame("proxy")

\* _handle_query, line 355: event_callback returns
EventCallbackReturns ==
    /\ px_c2s.pc = "callback"
    /\ px_c2s' = [px_c2s EXCEPT !.pc = "decide"]
    /\ UNCHANGED <<px_cfg, px_env, px_conn, px_s2c, px_log>>
    /\ Frame("proxy")

\* _handle_query, lines 357-378: on BLOCK one write of the error response
\* and the ready-for-query to the client; otherwise return True
BlockOrPass ==
    /\ px_c2s.pc = "decide"
    /\ IF px_c2s.action = "block"
       THEN /\ px_log' = Append(px_log,
                   LogEntry("client_write", px_c2s.data[1].m, "c2s",
                            CreateErrorResponse(ErrorMsg(px_c2s.reason))
                              \o CreateReadyForQuery(73)))
            /\ px_c2s' = [px_c2s EXCEPT !.pc = "block_drain"]
       ELSE /\ px_c2s' = [px_c2s EXCEPT !.pc = "latency"]
            /\ UNCHANGED px_log
    /\ UNCHANGED <<px_cfg, px_env, px_conn, px_s2c>>
    /\ Frame("proxy")

\* _proxy_client_to_server, lines 249-252: the chaos latency and its sleep
ApplyLatency ==
    /\ \/ /\ px_c2s.pc = "latency"
          /\ \E latency \in {0, 1} :
               px_c2s' = [px_c2s EXCEPT !.pc = IF latency > 0 THEN "sleep" ELSE "forward"]
       \/ /\ px_c2s.pc = "sleep"
          /\ px_c2s' = [px_c2s EXCEPT !.pc = "forward"]
    /\ UNCHANGED <<px_cfg, px_env, px_conn, px_s2c, px_log>>
    /\ Frame("proxy")

\* _proxy_client_to_server, lines 255-256: server_writer.write(data)
ForwardToServer ==
    /\ px_c2s.pc = "forward"
    /\ px_log' = Append(px_log, LogEntry("server_write", 0, "c2s", px_c2s.data))
    /\ px_c2s' = [px_c2s EXCEPT !.pc = "drain"]
    /\ UNCHANGED <<px_cfg, px_env, px_conn, px_s2c>>
    /\ Frame("proxy")

\* drain() returns and the loop tests _closed, or drain() raises because the
\* peer is gone and the task ends in its except clause
C2SDrained ==
    /\ px_c2s.pc \in {"drain", "block_drain"}
    /\ \E ok \in BOOLEAN :
         IF ok
         THEN px_c2s' = [px_c2s EXCEPT !.pc = IF px_conn.closed THEN "ended" ELSE "read"]
         ELSE /\ IF px_c2s.pc = "drain" THEN px_env.server # "open"
                 ELSE px_env.client # "open"
              /\ px_c2s' = [px_c2s EXCEPT !.pc = "ended", !.end = "error"]
    /\ UNCHANGED <<px_cfg, px_env, px_conn, px_s2c, px_log>>
    /\ Frame("proxy")

\* _proxy_server_to_client, lines 265-275: server_reader.read returns data
\* (written to the client), returns b"" at EOF, or raises
S2CRead ==
    /\ px_conn.pc = "gather" /\ px_s2c.pc = "read" /\ C2SParked
    /\ IF px_env.server = "reset"
       THEN /\ px_s2c' = [pc |-> "ended", end |-> "error"]
            /\ UNCHANGED <<px_env, px_log>>
       ELSE IF px_env.server_left > 0
       THEN /\ px_log' = Append(px_log, LogEntry("client_write", 0, "s2c", <<84>>))
            /\ px_env' = [px_env EXCEPT !.server_left = @ - 1]
            /\ px_s2c' = [px_s2c EXCEPT !.pc = "drain"]
       ELSE /\ px_env.server = "eof"
            /\ px_s2c' = [pc |-> "ended", end |-> "eof"]
            /\ UNCHANGED <<px_env, px_log>>
    /\ UNCHANGED <<px_cfg, px_conn, px_c2s>>
    /\ Frame("proxy")

\* _proxy_server_to_client, line 275: client_writer.drain()
S2CDrained ==
    /\ px_s2c.pc = "drain" /\ C2SParked
    /\ \E ok \in BOOLEAN :
         IF ok
         THEN px_s2c' = [px_s2c EXCEPT !.pc = IF px_conn.closed THEN "ended" ELSE "read"]
         ELSE /\ px_env.client # "open"
              /\ px_s2c' = [pc |-> "ended", end |-> "error"]
    /\ UNCHANGED <<px_cfg, px_env, px_conn, px_c2s, px_log>>
    /\ Frame("proxy")

\* handle, lines 212-226: gather returns once both tasks are over (or
\* open_connection failed), and finally runs _close
CloseConnection ==
    /\ \/ px_conn.pc = "close"
       \/ px_conn.pc = "gather" /\ px_c2s.pc = "ended" /\ px_s2c.pc = "ended"
    /\ px_conn' = [px_conn EXCEPT !.pc = "done", !.closed = TRUE,
                     !.client_writer = "closed",
                     !.server_writer = IF @ = "open" THEN "closed" ELSE @]
    /\ UNCHANGED <<px_cfg, px_env, px_c2s, px_s2c, px_log>>
    /\ Frame("proxy")

\* a peer closes its side (EOF after the bytes in flight) or resets it
PeerCloses ==
    /\ C2SParked /\ px_conn.pc # "done"
    /\ \E side \in {"client", "server"}, how \in {"eof", "reset"} :
         /\ px_env[side] = "open"
         /\ px_env' = [px_env EXCEPT ![side] = how]
    /\ UNCHANGED <<px_cfg, px_conn, px_c2s, px_s2c, px_log>>
    /\ Frame("proxy")

\* the steps the event loop takes on its own, without a peer acting
ProxySteps ==
    \/ ConnectServer \/ C2SRead \/ HandleQuery \/ EventCallbackReturns \/ BlockOrPass
    \/ ApplyLatency \/ ForwardToServer \/ C2SDrained \/ S2CRead \/ S2CDrained
    \/ CloseConnection

ProxyNext == ProxySteps \/ PeerCloses

\* ---- claims about the proxy connection ----------------------------------
LogIdx(k) == { i \in 1..Len(px_log) : px_log[i].k = k }

\* the messages of which at least one byte was written to the server socket
ForwardedMsgs ==
    UNION { { px_log[i].data[j].m : j \in 1..Len(px_log[i].data) } :
              i \in LogIdx("server_write") }

\* the Query messages the connection has received in full and finished
\* processing: the client-to-server task is back at its read, or over
ReceivedQueries ==
    { m \in 1..Len(px_env.msgs) :
        /\ px_env.msgs[m][1] = QUERY
        /\ px_c2s.pc \in {"read", "ended"}
        /\ \A c \in 1..Len(px_env.pending) :
              \A j \in 1..Len(px_env.pending[c]) : px_env.pending[c][j].m # m }

\* C1: for any sequence of client reads, once the policy decision for a
\* simple-query packet is BLOCK, no byte of that query is ever written to
\* the server socket.
C1_BlockedNeverForwarded ==
    \A i \in LogIdx("decision") :
       px_log[i].what = "block" => px_log[i].m \notin ForwardedMsgs

\* bytes b are one ErrorResponse ('E', its length, fields S, C and M, the M
\* text starting with "Query blocked: ", a terminator) and then one
\* ReadyForQuery ('Z', length 5, status 'I'), with nothing before, between
\* or after
IsErrorThenReady(b) ==
    /\ Len(b) > 5
    /\ b[1] = 69
    /\ LET length == UnpackU32(SubSeq(b, 2, 5))
           body   == SubSeq(b, 6, 1 + length)
           nuls   == { i \in 1..Len(body) : body[i] = 0 }
       IN /\ Len(b) = 1 + length + 6
          /\ Cardinality(nuls) = 4
          /\ \E z1, z2, z3 \in nuls :
                /\ z1 < z2 /\ z2 < z3 /\ z3 = Len(body) - 1 /\ body[Len(body)] = 0
                /\ body[1] = 83 /\ z1 > 2
                /\ body[z1 + 1] = 67 /\ z2 > z1 + 2
                /\ body[z2 + 1] = 77
                /\ z3 - (z2 + 1) > 15
                /\ SubSeq(body, z2 + 2, z2 + 16)
                     = <<81, 117, 101, 114, 121, 32, 98, 108, 111, 99, 107, 101, 100, 58, 32>>
          /\ SubSeq(b, 2 + length, Len(b)) = <<90, 0, 0, 0, 5, 73>>

\* what the client-to-server task did after history entry i, its events
\* aside: decisions, raises and writes
C2SAfter(i) ==
    { j \in (i + 1)..Len(px_log) :
        \/ px_log[j].k \in {"decision", "raise", "server_write"}
        \/ px_log[j].k = "client_write" /\ px_log[j].what = "c2s" }

C8_OneEventPerQuery ==
    \A m \in ReceivedQueries :
       LET events == { i \in LogIdx("event") : px_log[i].m = m }
       IN /\ Cardinality(events) = 1
          /\ \A i \in events :
                /\ \A j \in LogIdx("server_write") :
                      (\E b \in 1..Len(px_log[j].data) : px_log[j].data[b].m = m) => i < j
                /\ \A j \in LogIdx("client_write") :
                      (px_log[j].what = "c2s" /\ px_log[j].m = m) => i < j
                /\ \E d \in LogIdx("decision") :
                      /\ px_log[d].m = m
                      /\ px_log[i].what =
                            (CASE px_log[d].what = "block" -> "sql_blocked"
                               [] px_log[d].what = "allow_flagged" -> "sql_flagged"
                               [] OTHER -> "sql_allowed")

\* C9: if the policy evaluator raises while a query is being processed, the
\* proxy fails open: the client-to-server task does not end because of the
\* raise and, once it is back at its read, the query has been forwarded to
\* the server and an event for it has been emitted.
C9_EvaluatorRaiseFailsOpen ==
    \A i \in LogIdx("raise") :
       /\ px_c2s.end # "raise"
       /\ px_c2s.pc \in {"read", "ended"} =>
             /\ px_log[i].m \in ForwardedMsgs
             /\ \E e \in LogIdx("event") : px_log[e].m = px_log[i].m /\ i < e

\* C10: when either direction of a connection observes EOF or a socket
\* error, both the client socket and the server socket are eventually closed,
\* without waiting for the other peer to close its side.
C10_EofClosesBoth ==
    (px_c2s.end \in {"eof", "error"} \/ px_s2c.end \in {"eof", "error"})
       ~> (px_conn.client_writer = "closed" /\ px_conn.server_writer = "closed")

\* C11: within one connection each socket has a single writer task: the
\* client socket is written only by the server-to-client task and the server
\* socket only by the client-to-server task.
C11_SingleWriterPerSocket ==
    /\ \A i \in LogIdx("client_write") : px_log[i].what = "s2c"
    /\ \A i \in LogIdx("server_write") : px_log[i].what = "c2s"

\* C12: on a single connection, SQL events are emitted in the order the
\* statements arrived; chaos latency sleeps and block decisions never
\* reorder them.
C12_EventsInArrivalOrder ==
    \A i, j \in LogIdx("event") : i < j => px_log[i].m < px_log[j].m

\* C12 witness: the first statement was blocked, the second is in its chaos
\* latency sleep, and both events have been emitted
C12_Witness ==
    /\ px_c2s.pc = "sleep"
    /\ \E i, j \in LogIdx("event") :
          /\ i < j
          /\ px_log[i].m = 1 /\ px_log[i].what = "sql_blocked"
          /\ px_log[j].m = 2

\* ========================================================================
\* STATEMENT ANALYSIS: SQLInterceptor.parse and RiskScorer.assess
\* ========================================================================

\* RiskLevel, in the order of the list `levels`
RiskLevels == <<"low", "medium", "high", "critical">>

LevelIndex(risk) == CHOOSE i \in 1..4 : RiskLevels[i] = risk

\* RiskScorer.BASE_RISK.get(sql_type, RiskLevel.MEDIUM)
BASE_RISK(sql_type) ==
    CASE sql_type \in {"drop", "truncate"} -> "critical"
      [] sql_type \in {"alter", "delete", "grant", "revoke"} -> "high"
      [] sql_type \in {"create", "update", "other"} -> "medium"
      [] OTHER -> "low"

\* RiskScorer.DEFAULT_SENSITIVE_TABLES
DEFAULT_SENSITIVE_TABLES ==
    {"users", "accounts", "passwords", "credentials", "secrets", "api_keys",
     "tokens", "sessions", "audit_logs", "payments", "transactions"}

\* RiskScorer.ROW_THRESHOLDS
ROW_THRESHOLDS ==
    [low_to_medium |-> 100, medium_to_high |-> 1000, high_to_critical |-> 10000]

\* a row_thresholds argument that is None or an empty dict
NoThresholds ==
    [low_to_medium |-> None, medium_to_high |-> None, high_to_critical |-> None]

\* the worst case _estimate_rows assumes for a DELETE or UPDATE without WHERE
WorstCaseRows == 1000000

\* a risk escalation that leaves the level where it is
EscalateRisk_Stay(risk) == risk

\* RiskScorer._escalate_risk
EscalateRisk(risk) == RiskLevels[Min(LevelIndex(risk) + 1, 4)]

\* max(risk, RiskLevel.MEDIUM): RiskLevel is a str enum, so max compares the
\* values as strings: "critical" < "high" < "low" < "medium"
MaxRisk(a, b) ==
    LET rank(x) == CASE x = "critical" -> 0 [] x = "high" -> 1
                     [] x = "low" -> 2 [] x = "medium" -> 3
    IN IF rank(b) > rank(a) THEN b ELSE a

\* RiskScorer._estimate_rows
EstimateRows(parsed) ==
    IF parsed.sql_type \in {"delete", "update"} /\ ~parsed.has_where_clause
    THEN WorstCaseRows ELSE None

\* self.row_thresholds.get(key, default), after `row_thresholds or ROW_THRESHOLDS`
Threshold(cfg, key) ==
    LET th == IF cfg.row_thresholds = NoThresholds THEN ROW_THRESHOLDS
              ELSE cfg.row_thresholds
    IN IF th[key] = None THEN ROW_THRESHOLDS[key] ELSE th[key]

\* RiskScorer._adjust_risk_by_rows
AdjustRiskByRows(risk, rows, cfg) ==
    IF rows >= Threshold(cfg, "high_to_critical") THEN "critical"
    ELSE IF rows >= Threshold(cfg, "medium_to_high")
         THEN RiskLevels[IF LevelIndex(risk) > 3 THEN LevelIndex(risk) ELSE 3]
    ELSE IF rows >= Threshold(cfg, "low_to_medium")
         THEN RiskLevels[IF LevelIndex(risk) > 2 THEN LevelIndex(risk) ELSE 2]
    ELSE risk

\* RiskScorer.assess
Assess(parsed, cfg) ==
    LET hit   == \E i \in 1..Len(parsed.tables) :
                    Lower(parsed.tables[i]) \in { Lower(t) : t \in cfg.sensitive_tables }
        risk0 == BASE_RISK(parsed.sql_type)
        risk1 == IF hit THEN EscalateRisk(risk0) ELSE risk0
        risk2 == IF parsed.sql_type \in {"delete", "update"} /\ ~parsed.has_where_clause
                 THEN EscalateRisk(risk1) ELSE risk1
        risk3 == IF parsed.is_select_star /\ hit THEN MaxRisk(risk2, "medium") ELSE risk2
        risk4 == IF parsed.estimated_complexity >= 7 /\ risk3 = "low"
                 THEN "medium" ELSE risk3
        risk5 == IF parsed.subquery_count > 2 /\ risk4 = "low" THEN "medium" ELSE risk4
        rows  == EstimateRows(parsed)
    IN [risk_level |-> IF rows # None THEN AdjustRiskByRows(risk5, rows, cfg) ELSE risk5,
        rows_estimated |-> rows,
        confidence_pct |-> IF parsed.is_valid THEN 100 ELSE 50]

\* ParsedSQL(...) with the defaults of the dataclass
NewParsedSQL(sql_type, is_valid, parse_error) ==
    [sql_type |-> sql_type, tables |-> <<>>, has_where_clause |-> FALSE,
     is_select_star |-> FALSE, subquery_count |-> 0, estimated_complexity |-> 1,
     is_valid |-> is_valid, parse_error |-> parse_error]

\* SQLInterceptor._classify_by_prefix: the statement is a sequence of words
\* and the prefix is its first word
ClassifyByPrefix(text) ==
    LET first == Upper(text[1]) IN
    CASE first = "SELECT" -> "select"
      [] first = "UPDATE" -> "update"
      [] first = "DELETE" -> "delete"
      [] first = "DROP" -> "drop"
      [] first = "TRUNCATE" -> "truncate"
      [] OTHER -> "other"

\* SQLInterceptor._get_sql_type: TYPE_MAP, then the TRUNCATE test on the text
GetSqlType(expr) ==
    CASE expr.type = "Select" -> "select"
      [] expr.type = "Update" -> "update"
      [] expr.type = "Delete" -> "delete"
      [] expr.type = "Drop" -> "drop"
      [] expr.type = "TruncateTable" -> "truncate"
      [] OTHER -> "other"

\* SQLInterceptor._estimate_complexity
EstimateComplexity(expr) ==
    Min(1 + Min(Len(expr.tables) - 1, 2) + Min(expr.joins, 3)
          + Min(expr.subqueries * 2, 4), 10)

\* SQLInterceptor._analyze_expression
AnalyzeExpression(expr) ==
    [sql_type |-> GetSqlType(expr), tables |-> expr.tables,
     has_where_clause |-> expr.where,
     is_select_star |-> (expr.type = "Select" /\ expr.star),
     subquery_count |-> expr.subqueries,
     estimated_complexity |-> EstimateComplexity(expr),
     is_valid |-> TRUE, parse_error |-> ""]

\* SQLInterceptor.parse: the ParsedSQL returned, or the exception that
\* leaves the call. in.lib is what sqlglot.parse does with the text.
Parse(in) ==
    IF in.text = <<>>
    THEN [raised |-> "", parsed |-> NewParsedSQL("other", FALSE, "Empty statement")]
    ELSE CASE in.lib = "none" ->
                [raised |-> "", parsed |-> NewParsedSQL("other", FALSE, "No expressions parsed")]
           [] in.lib = "expr" ->
                [raised |-> "", parsed |-> AnalyzeExpression(in.expr)]
           [] in.lib = "ParseError" ->
                [raised |-> "",
                 parsed |-> NewParsedSQL(ClassifyByPrefix(in.text), FALSE, "ParseError")]
           [] OTHER ->
                [raised |-> in.lib, parsed |-> NewParsedSQL("other", FALSE, "")]

\* ---- the statements and scorer configurations explored -------------------
NoExpr ==
    [type |-> "Command", tables |-> <<>>, where |-> FALSE, star |-> FALSE,
     subqueries |-> 0, joins |-> 0]

\* the syntax tree sqlglot builds for a statement that begins with `first`
ExprsOf(first) ==
    [type : { CASE first = "SELECT" -> "Select" [] first = "UPDATE" -> "Update"
                [] first = "DELETE" -> "Delete" [] first = "DROP" -> "Drop"
                [] first = "TRUNCATE" -> "TruncateTable" [] OTHER -> "Command" },
     tables : {<<>>, <<"orders">>, <<"Users", "orders">>},
     where : BOOLEAN, star : BOOLEAN,
     subqueries : {0, MaxNodes}, joins : {0, MaxNodes}]

AnalysisTexts ==
    {<<>>, <<"SELECT", "x">>, <<"update", "orders">>, <<"DELETE", "users">>,
     <<"truncate", "orders">>, <<"explain", "x">>}

\* sqlglot.parse returns a list of expressions, returns an empty list, or
\* raises ParseError or TokenError (both subclasses of SqlglotError only)
AnalysisInputs ==
    { [text |-> <<>>, lib |-> "none", expr |-> NoExpr] } \cup
    UNION { [text : {t}, lib : {"none", "ParseError", "TokenError"}, expr : {NoExpr}] \cup
            [text : {t}, lib : {"expr"}, expr : ExprsOf(Upper(t[1]))] :
            t \in AnalysisTexts \ {<<>>} }

ScorerConfigs ==
    [sensitive_tables : {DEFAULT_SENSITIVE_TABLES, {}, {"ORDERS"}},
     row_thresholds : {NoThresholds,
                       [NoThresholds EXCEPT !.high_to_critical = 2 * WorstCaseRows],
                       [low_to_medium |-> 2 * WorstCaseRows,
                        medium_to_high |-> 2 * WorstCaseRows,
                        high_to_critical |-> 2 * WorstCaseRows]}]

NoAnalysis ==
    [pc |-> "idle", raised |-> "", parsed |-> NewParsedSQL("other", FALSE, ""),
     risk |-> [risk_level |-> "", rows_estimated |-> None, confidence_pct |-> 100]]

\* SQLInterceptor() and RiskScorer(sensitive_tables, row_thresholds)
AnalysisInit ==
    /\ an_cfg \in ScorerConfigs
    /\ an_in \in AnalysisInputs
    /\ an_out = NoAnalysis

\* _handle_query, line 305: parsed = self.interceptor.parse(sql)
ParseCall ==
    /\ an_out.pc = "idle"
    /\ LET r == Parse(an_in) IN
       an_out' = [an_out EXCEPT !.pc = IF r.raised = "" THEN "parsed" ELSE "raised",
                                !.raised = r.raised, !.parsed = r.parsed]
    /\ UNCHANGED <<an_cfg, an_in>>
    /\ Frame("analysis")

\* _handle_query, line 308: risk_assessment = self.risk_scorer.assess(parsed)
AssessCall ==
    /\ an_out.pc = "parsed"
    /\ an_out' = [an_out EXCEPT !.pc = "assessed", !.risk = Assess(an_out.parsed, an_cfg)]
    /\ UNCHANGED <<an_cfg, an_in>>
    /\ Frame("analysis")

AnalysisNext == ParseCall \/ AssessCall

\* ---- claims about the statement analysis ---------------------------------

\* C16: for every parsed statement p and every scorer configuration
\* (sensitive tables, row thresholds): if p.sql_type is DELETE or UPDATE and
\* p.has_where_clause is false, assess(p).risk_level is HIGH or CRITICAL.
C16_NoWhereIsHighRisk ==
    (/\ an_out.pc = "assessed"
     /\ an_out.parsed.sql_type \in {"delete", "update"}
     /\ ~an_out.parsed.has_where_clause) =>
        an_out.risk.risk_level \in {"high", "critical"}

\* C16 witness: an UPDATE without WHERE on a table that is not sensitive,
\* under row thresholds above the worst-case estimate, was assessed HIGH
C16_Witness ==
    /\ an_out.pc = "assessed"
    /\ an_out.parsed.sql_type = "update"
    /\ an_out.parsed.is_valid
    /\ ~an_out.parsed.has_where_clause
    /\ Threshold(an_cfg, "medium_to_high") > WorstCaseRows
    /\ an_out.risk.risk_level = "high"

\* C17: parse(sql) never raises for any input: every failure of the
\* underlying SQL parser (of any error kind) yields a result with
\* is_valid = false, parse_error populated and sql_type set by the
\* first-keyword prefix classifier.
C17_ParseNeverRaises ==
    an_out.pc # "idle" =>
        /\ an_out.raised = ""
        /\ (an_in.text # <<>> /\ an_in.lib \in {"ParseError", "TokenError"}) =>
              /\ ~an_out.parsed.is_valid
              /\ an_out.parsed.parse_error # ""
              /\ an_out.parsed.sql_type = ClassifyByPrefix(an_in.text)

\* ========================================================================
\* FILE SYSTEM INTERCEPTOR
\* ========================================================================
FsOperations == {"read", "write", "create", "delete", "rename", "copy"}

FsPaths == {"a", "b"}

NoFsCall == [operation |-> "none", path |-> "", target_path |-> "", raised |-> "none"]

\* FSInterceptor.__init__ in a sandbox that holds some files; the evaluator
\* denies the operations of fs_cfg.denied
FsInit ==
    /\ fs_cfg \in { [evaluator |-> FALSE, denied |-> {}],
                    [evaluator |-> TRUE, denied |-> {}],
                    [evaluator |-> TRUE, denied |-> {"delete"}],
                    [evaluator |-> TRUE, denied |-> {"write", "rename", "copy"}],
                    [evaluator |-> TRUE, denied |-> FsOperations] }
    /\ fs_state \in { [files |-> f, operation_count |-> 0, blocked_count |-> 0] :
                        f \in SUBSET FsPaths }
    /\ fs_last = NoFsCall

\* _check_policy: the FSPolicyResult.allowed of the evaluator, allowed when
\* no evaluator is set
FsAllowed(operation) == ~(fs_cfg.evaluator /\ operation \in fs_cfg.denied)

\* a _log_event that counts every failed operation as blocked
LogEvent_CountsFailures(st, allowed, success) ==
    [st EXCEPT !.blocked_count = IF ~success THEN @ + 1 ELSE @]

\* _log_event, lines 587-588
LogEvent(st, allowed, success) ==
    [st EXCEPT !.blocked_count = IF ~allowed THEN @ + 1 ELSE @]

\* open / os.remove / shutil.move / shutil.copy2 on the files: the error
\* they raise, "none" when they succeed
FsError(files, operation, path) ==
    IF operation \in {"read", "delete", "rename", "copy"} /\ path \notin files
    THEN "FileNotFoundError" ELSE "none"

\* the files after the operation has succeeded
FsEffect(files, operation, path, target_path) ==
    CASE operation \in {"write", "create"} -> files \cup {path}
      [] operation = "delete" -> files \ {path}
      [] operation = "rename" -> (files \ {path}) \cup {target_path}
      [] operation = "copy" -> files \cup {target_path}
      [] OTHER -> files

\* read_file, write_file, create_file, delete_file, rename, copy: the policy
\* check, the PermissionError of a denied call, the effect and its event
FsOperation ==
    \E operation \in FsOperations, path \in FsPaths, target_path \in FsPaths :
       LET checked == [fs_state EXCEPT !.operation_count = @ + 1]
           error == FsError(fs_state.files, operation, path)
       IN /\ fs_state.operation_count < MaxFsOps
          /\ (operation \notin {"rename", "copy"} => target_path = path)
          /\ IF ~FsAllowed(operation)
             THEN /\ fs_state' = LogEvent(checked, FALSE, FALSE)
                  /\ fs_last' = [operation |-> operation, path |-> path,
                                 target_path |-> target_path,
                                 raised |-> "PermissionError"]
             ELSE IF error # "none"
             THEN /\ fs_state' = LogEvent(checked, TRUE, FALSE)
                  /\ fs_last' = [operation |-> operation, path |-> path,
                                 target_path |-> target_path, raised |-> error]
             ELSE /\ fs_state' = LogEvent(
                         [checked EXCEPT !.files =
                             FsEffect(@, operation, path, target_path)],
                         TRUE, TRUE)
                  /\ fs_last' = [operation |-> operation, path |-> path,
                                 target_path |-> target_path, raised |-> "none"]
          /\ UNCHANGED fs_cfg
          /\ Frame("fs")

\* the agent's own process changes the sandbox without the interceptor
FsOutside ==
    /\ \E path \in FsPaths : fs_state' = [fs_state EXCEPT !.files = @ \cup {path}]
    /\ fs_state.operation_count < MaxFsOps
    /\ UNCHANGED <<fs_cfg, fs_last>>
    /\ Frame("fs")

FsNext == FsOperation \/ FsOutside

\* ---- claims about the file system interceptor ---------------------------

AtRest(own) ==
    /\ IF own = "policy" THEN TRUE
       ELSE /\ policy = EmptyPolicy
            /\ pe_in = [called |-> FALSE, args |-> NoStatement]
            /\ pe_out = NewResult
    /\ IF own = "store" THEN TRUE
       ELSE /\ st_max = 1
            /\ st_rows = {}
            /\ st_stats = [r \in Runs |-> NoStats]
            /\ st_seq = 0
            /\ st_last = NoCall
            /\ st_subscribers = <<>>
            /\ st_writers = [w \in Writers |-> IdleWriter]
    /\ IF own = "run" THEN TRUE
       ELSE /\ or_cfg = [cleanup_on_exit |-> TRUE, timeout |-> 1]
            /\ or_run = NoRun
            /\ or_task = NoTask
            /\ or_docker = [network |-> "none", postgres |-> "none", proxy |-> "none",
                            agent |-> "none"]
            /\ or_now = 0
            /\ or_ret = "none"
    /\ IF own = "sched" THEN TRUE
       ELSE /\ sc_scenario = <<>>
            /\ sc_limit = 0
            /\ sc_hooks = NoHooks
            /\ sc_running = FALSE
            /\ sc_state = [exists |-> FALSE]
            /\ sc_timer = [pc |-> "none", idx |-> 0, wake_at |-> 0, elapsed |-> 0]
            /\ sc_callers = [c \in Callers |-> IdleCaller]
            /\ sc_turn = "none"
            /\ sc_now = 0
            /\ sc_ghost = NoGhost
    /\ IF own = "proxy" THEN TRUE
       ELSE /\ px_cfg = [evaluator |-> FALSE, callback |-> FALSE]
            /\ px_env = [msgs |-> <<>>, pending |-> <<>>, client |-> "open",
                         server_left |-> 0, server |-> "open"]
            /\ px_conn = NewConnection
            /\ px_c2s = NoC2S
            /\ px_s2c = [pc |-> "none", end |-> ""]
            /\ px_log = <<>>
    /\ IF own = "analysis" THEN TRUE
       ELSE /\ an_cfg = [sensitive_tables |-> {}, row_thresholds |-> NoThresholds]
            /\ an_in = [text |-> <<>>, lib |-> "none", expr |-> NoExpr]
            /\ an_out = NoAnalysis
    /\ IF own = "fs" THEN TRUE
       ELSE /\ fs_cfg = [evaluator |-> FALSE, denied |-> {}]
            /\ fs_state = [files |-> {}, operation_count |-> 0, blocked_count |-> 0]
            /\ fs_last = NoFsCall

InitPolicy == PolicyInit /\ AtRest("policy")

SpecPolicy == InitPolicy /\ [][PolicyNext]_vars

InitStore == StoreInit /\ AtRest("store")

SpecStore == InitStore /\ [][StoreNext]_vars

InitRun == RunInit /\ AtRest("run")

SpecRun == InitRun /\ [][RunNext]_vars

InitVerdict == VerdictInit /\ AtRest("run")

SpecVerdict == InitVerdict /\ [][VerdictNext]_vars

InitSched == SchedInit /\ AtRest("sched")

SpecSched == InitSched /\ [][SchedNext]_vars

InitSubscribers == SubscribersInit /\ AtRest("store")

SpecSubscribers == InitSubscribers /\ [][SubscribersNext]_vars

SpecWriters == InitStore /\ [][WritersNext]_vars

InitChaos == ChaosInit /\ AtRest("sched")

InitHooks == HooksInit /\ AtRest("sched")

SpecHooks == InitHooks /\ [][HooksNext]_vars

SpecChaos == InitChaos /\ [][ChaosNext]_vars

InitProxy == ProxyInit /\ AtRest("proxy")

SpecProxy == InitProxy /\ [][ProxyNext]_vars

\* the event loop runs every task that can run; the peers owe nothing
SpecProxyFair == InitProxy /\ [][ProxyNext]_vars /\ WF_vars(ProxySteps)

InitAnalysis == AnalysisInit /\ AtRest("analysis")

SpecAnalysis == InitAnalysis /\ [][AnalysisNext]_vars

InitFs == FsInit /\ AtRest("fs")

SpecFs == InitFs /\ [][FsNext]_vars

====
